---- MODULE Spec2Model ----
(***************************************************************************)
(* iploop: a SOCKS5 front end that tunnels every CONNECT through a         *)
(* rotating pool of upstream proxies.                                      *)
(*                                                                         *)
(* The module models                                                       *)
(*   - pkg/proxy: Proxy (fingerprint, alive flag, counters) and Rotator    *)
(*     (AddProxy, getPool, Next, MarkDead);                                *)
(*   - pkg/server: Serve, Close, handleConnection, handleNormal,           *)
(*     handleJustDoIt, connectToTarget and relay.                          *)
(*                                                                         *)
(* Spec        drives one Rotator through its public methods.              *)
(* SpecServer  runs the server's connection workers over a loaded Rotator. *)
(* SpecLoader  loads a proxy list with LoadFromFile or LoadFromStrings.    *)
(* SpecCodec   sends a CONNECT request through readRequest and dialSOCKS5. *)
(* SpecConnect reads an upstream's CONNECT response in doHTTPConnect.      *)
(* SpecRelay   runs the two copies of relay over the connection Dial gave.  *)
(* SpecDial    dials a target through a SOCKS5 endpoint for connectToTarget.*)
(* Go slices are 0-based, TLA+ sequences 1-based: index i of the code is   *)
(* position i + 1 here.                                                    *)
(***************************************************************************)
EXTENDS Integers, Sequences, FiniteSets, TLC

(***************************************************************************)
(* Bounds of the model.                                                    *)
(***************************************************************************)
\* number of distinct fingerprints among the Proxy objects of the universe
NumKeys == 2
\* number of AddProxy calls in a behaviour of Spec
MaxAdds == 3
\* number of Next calls in a behaviour of Spec
MaxNext == 5
\* value at which the sticky counter saturates in auto mode (it is not read there)
MaxCounter == 3
\* number of client connections in a behaviour of SpecServer
MaxConns == 2
\* number of lines of a proxy list in a behaviour of SpecLoader
MaxLines == 3
\* number of bytes an upstream sends behind its CONNECT response in SpecConnect
MaxData == 3
\* bytes the bufio.Reader of doHTTPConnect holds beside the response header
\* (1024 with the header in the code)
BufSize == 2

(***************************************************************************)
(* pkg/proxy: Proxy                                                        *)
(***************************************************************************)
ProxyTypes == <<"HTTP", "HTTPS", "SOCKS4", "SOCKS5">>

HostNames == <<"a", "b", "c", "d">>

\* the nil *Proxy
Nil == [id |-> 0, Type |-> "UNKNOWN", Host |-> "", Port |-> "", Username |-> ""]

\* The Proxy objects NewProxy can hand out in this model.  Object i and
\* object i + NumKeys name the same scheme, host and port (the second one
\* carries a user name), so they are two objects with one fingerprint.
NewProxy(i) ==
    LET k == ((i - 1) % NumKeys) + 1
    IN  [id       |-> i,
         Type     |-> ProxyTypes[((k - 1) % 4) + 1],
         Host     |-> HostNames[(((k - 1) \div 4) % 4) + 1],
         Port     |-> "1080",
         Username |-> IF i > NumKeys THEN "user" ELSE ""]

Proxies == { NewProxy(i) : i \in 1..(2 * NumKeys) }

\* strings.ToLower(p.Type.String())
ToLower(t) ==
    CASE t = "HTTP"   -> "http"
      [] t = "HTTPS"  -> "https"
      [] t = "SOCKS4" -> "socks4"
      [] t = "SOCKS5" -> "socks5"
      [] OTHER        -> "unknown"

\* host:port
Address(p) == <<p.Host, p.Port>>

\* Proxy.String: "<scheme>://<host>:<port>", the fingerprint AddProxy dedups on.
\* The three parts are kept apart instead of being concatenated.
String(p) == <<ToLower(p.Type), p.Host, p.Port>>

(***************************************************************************)
(* pkg/proxy: Rotator                                                      *)
(***************************************************************************)
RotationRandom == "random"
RotationSequential == "sequential"

ErrNone == "nil"
ErrAllProxiesDead == "all proxies are dead"
ErrNoProxies == "no proxies available"

\* requestsPer as config.Parse can produce it: -1 is "auto", otherwise >= 1
RequestsPerChoices == {-1, 1, 2}

Range(s) == { s[i] : i \in 1..Len(s) }

\* The nil slice and the empty slice are both <<>>: a non-nil shuffled always
\* has len(pool) >= 1 elements.
NewRotator(strategy, skipDead, requestsPer) ==
    [proxies     |-> <<>>,
     seen        |-> {},
     strategy    |-> strategy,
     skipDead    |-> skipDead,
     requestsPer |-> requestsPer,
     current     |-> Nil,
     counter     |-> 0,
     seqIndex    |-> 0,
     shuffled    |-> <<>>,
     shuffleIdx  |-> 0,
     poolCache   |-> <<>>]

\* AddProxy without the lookup in seen
AddProxyNoDedup(r, p) ==
    [r EXCEPT !.seen      = @ \cup {String(p)},
              !.proxies   = Append(@, p),
              !.poolCache = <<>>,
              !.shuffled  = <<>>]

\* Rotator.AddProxy with the mutex held from the lookup to the append
AddProxy(r, p) ==
    IF String(p) \in r.seen
    THEN r
    ELSE [r EXCEPT !.seen      = @ \cup {String(p)},
                   !.proxies   = Append(@, p),
                   !.poolCache = <<>>,
                   !.shuffled  = <<>>]

\* Rotator.Count
Count(r) == Len(r.proxies)

\* AliveCount that counts every endpoint
AliveCountAll(r, al) == Len(r.proxies)

\* Rotator.AliveCount; al is the alive flag of every Proxy object
AliveCount(r, al) == Cardinality({ i \in 1..Len(r.proxies) : al[r.proxies[i]] })

\* getPool that hands out every endpoint, dead or alive
getPoolIgnoresAlive(r, al) == [pool |-> r.proxies, err |-> ErrNone, r |-> r]

\* getPool that falls back to every endpoint when none is alive
getPoolFallsBack(r, al) ==
    IF ~r.skipDead
    THEN [pool |-> r.proxies, err |-> ErrNone, r |-> r]
    ELSE LET cache == SelectSeq(r.proxies, LAMBDA p : al[p])
             r1    == [r EXCEPT !.poolCache = cache]
         IN  IF Len(cache) = 0
             THEN [pool |-> r.proxies, err |-> ErrNone, r |-> r1]
             ELSE [pool |-> cache, err |-> ErrNone, r |-> r1]

\* Rotator.getPool: the pool, the error and the Rotator with its poolCache rebuilt
getPool(r, al) ==
    IF ~r.skipDead
    THEN [pool |-> r.proxies, err |-> ErrNone, r |-> r]
    ELSE LET cache == SelectSeq(r.proxies, LAMBDA p : al[p])
             r1    == [r EXCEPT !.poolCache = cache]
         IN  IF Len(cache) = 0
             THEN [pool |-> <<>>, err |-> ErrAllProxiesDead, r |-> r1]
             ELSE [pool |-> cache, err |-> ErrNone, r |-> r1]

\* a swap that loses s[i]
SwapOverwrites(s, i, j) == [s EXCEPT ![i] = s[j]]

\* the swap function Next passes to rand.Shuffle
Swap(s, i, j) == [s EXCEPT ![i] = s[j], ![j] = s[i]]

\* rand.Shuffle: Fisher-Yates from the last position down, swapping position
\* i with the drawn position js[i] <= i
RECURSIVE Shuffle(_, _, _)
Shuffle(s, js, i) ==
    IF i <= 1 THEN s ELSE Shuffle(Swap(s, i, js[i]), js, i - 1)

\* the draws rand.Shuffle can make for n elements
Draws(n) == { js \in [1..n -> 1..n] : \A i \in 1..n : js[i] <= i }

\* the Sequential case without the increment of seqIndex
nextSequentialNoAdvance(r, pool) ==
    LET idx == r.seqIndex % Len(pool)
    IN  [r |-> [r EXCEPT !.seqIndex = idx], proxy |-> pool[idx + 1]]

\* the Sequential case advancing by two positions
nextSequentialSkipsOne(r, pool) ==
    LET idx == r.seqIndex % Len(pool)
    IN  [r |-> [r EXCEPT !.seqIndex = idx + 2], proxy |-> pool[idx + 1]]

\* the RotationSequential case of Next
nextSequential(r, pool) ==
    LET idx == r.seqIndex % Len(pool)
    IN  [r |-> [r EXCEPT !.seqIndex = idx + 1], proxy |-> pool[idx + 1]]

\* the reshuffle test without the look at the cursor
needReshuffleIgnoresCursor(r, pool) ==
    \/ r.shuffled = <<>>
    \/ r.skipDead /\ Len(r.shuffled) # Len(pool)

\* the RotationRandom case of Next
needReshuffle(r, pool) ==
    \/ r.shuffled = <<>>
    \/ r.shuffleIdx >= Len(r.shuffled)
    \/ r.skipDead /\ Len(r.shuffled) # Len(pool)

\* the Random case reading the permutation one position behind the cursor
nextRandomStaleCursor(r, pool, js) ==
    LET r1 == IF needReshuffle(r, pool)
              THEN [r EXCEPT !.shuffled   = Shuffle(pool, js, Len(pool)),
                             !.shuffleIdx = 0]
              ELSE r
    IN  [r     |-> [r1 EXCEPT !.shuffleIdx = @ + 1],
         proxy |-> r1.shuffled[IF r1.shuffleIdx = 0 THEN 1 ELSE r1.shuffleIdx]]

nextRandom(r, pool, js) ==
    LET r1 == IF needReshuffle(r, pool)
              THEN [r EXCEPT !.shuffled   = Shuffle(pool, js, Len(pool)),
                             !.shuffleIdx = 0]
              ELSE r
    IN  [r |-> [r1 EXCEPT !.shuffleIdx = @ + 1], proxy |-> r1.shuffled[r1.shuffleIdx + 1]]

\* the sticky branch taken for one call more
staysOnCurrentOneMore(r, al) ==
    /\ r.current # Nil
    /\ (r.requestsPer = -1 \/ r.counter <= r.requestsPer)
    /\ (~r.skipDead \/ al[r.current])

\* the sticky branch of Next is taken
staysOnCurrent(r, al) ==
    /\ r.current # Nil
    /\ (r.requestsPer = -1 \/ r.counter < r.requestsPer)
    /\ (~r.skipDead \/ al[r.current])

\* Rotator.Next under the mutex; js are the draws of rand.Shuffle.
\* In auto mode the counter is never compared, and it saturates at MaxCounter.
Next(r, al, js) ==
    IF Len(r.proxies) = 0
    THEN [r |-> r, proxy |-> Nil, err |-> ErrNoProxies]
    ELSE IF staysOnCurrent(r, al)
    THEN [r     |-> [r EXCEPT !.counter = IF r.requestsPer = -1 /\ @ >= MaxCounter
                                           THEN @ ELSE @ + 1],
          proxy |-> r.current,
          err   |-> ErrNone]
    ELSE LET g == getPool(r, al)
         IN  IF g.err # ErrNone
             THEN [r |-> g.r, proxy |-> Nil, err |-> g.err]
             ELSE LET n == IF r.strategy = RotationSequential
                           THEN nextSequential(g.r, g.pool)
                           ELSE nextRandom(g.r, g.pool, js)
                  IN  [r     |-> [n.r EXCEPT !.current = n.proxy, !.counter = 1],
                       proxy |-> n.proxy,
                       err   |-> ErrNone]

\* the number of elements rand.Shuffle is called with by this Next (0: not called)
shuffleLen(r, al) ==
    IF \/ Len(r.proxies) = 0
       \/ staysOnCurrent(r, al)
       \/ r.strategy # RotationRandom
    THEN 0
    ELSE LET g == getPool(r, al)
         IN  IF g.err = ErrNone /\ needReshuffle(g.r, g.pool) THEN Len(g.pool) ELSE 0

\* Proxy.MarkDead on the alive flags
ProxyMarkDeadNoStore(al, p) == al

ProxyMarkDead(al, p) == [al EXCEPT ![p] = FALSE]

\* MarkDead that drops the caches in keep-dead mode too
MarkDeadAlwaysInvalidates(r) == [r EXCEPT !.shuffled = <<>>, !.poolCache = <<>>]

\* MarkDead that forgets the sticky endpoint in keep-dead mode
MarkDeadDropsCurrent(r) ==
    IF r.skipDead
    THEN [r EXCEPT !.shuffled = <<>>, !.poolCache = <<>>]
    ELSE [r EXCEPT !.current = Nil]

\* Rotator.MarkDead: the part that touches the Rotator
MarkDead(r) ==
    IF r.skipDead
    THEN [r EXCEPT !.shuffled = <<>>, !.poolCache = <<>>]
    ELSE r

(***************************************************************************)
(* State                                                                   *)
(***************************************************************************)
VARIABLES
    rot,        \* the Rotator
    alive,      \* Proxy.alive of every Proxy object
    lastOp,     \* the Rotator method called last ("MarkDeadAgain": MarkDead of a dead endpoint)
    lastRes,    \* what the last Next returned: [proxy, err]
    nextCalls,  \* number of Next calls so far
    hist,       \* what each Next returned since the last AddProxy
    quiet,      \* number of Next calls since the last AddProxy or MarkDead
    addLog,     \* the arguments of the AddProxy calls so far
    twin,       \* keep-dead mode: a Rotator given the same AddProxy and Next calls, no MarkDead
    twinRes,    \* what the twin's last Next returned
    requests,   \* Proxy.requests of every Proxy object
    failures,   \* Proxy.failures of every Proxy object
    justDoIt,   \* Server.justDoIt
    stats,      \* Server.stats
    cancelled,  \* Server.ctx is done
    listening,  \* Server.listener is open
    wg,         \* Server.wg: the WaitGroup counter
    servePc,    \* where Serve stands
    closePc,    \* where Close stands
    conn,       \* per client connection: where its worker stands, and the worker's locals
    out,        \* per client connection: the messages written to the client
    counted,    \* per client connection: the increments its worker made to stats
    phases,     \* per client connection: what its worker has done so far
    input,      \* LoadFromFile, LoadFromStrings: the file or the slice to load
    loadPc,     \* where the load stands
    pos,        \* number of entries the load has consumed
    loadErr,    \* what the load returned
    wire,       \* the bytes of a CONNECT request a client sent
    target,     \* what readRequest made of them: [target, err]
    encoded,    \* what dialSOCKS5 made of the target: [req, err]
    reparsed,   \* what readRequest made of the bytes of dialSOCKS5
    codecPc,    \* where the round trip stands
    resp,       \* the CONNECT response of the upstream and the bytes it sends behind it
    up,         \* the upstream: header sent, number of bytes sent behind it, closed
    sock,       \* the bytes that reached the connection and were not read from it
    brBuf,      \* the bytes the bufio.Reader br holds
    body,       \* resp.Body: its kind and the bytes it still takes
    delivered,  \* the bytes the relay has read from the returned connection
    httpPc,     \* where doHTTPConnect and the relay stand
    relaying,   \* relay: the two connections and the two copies
    dialing     \* dialSOCKS5 under connectToTarget: the endpoint, the target, the exchange

\* the variables that only record what the Rotator's callers did in Spec
rotLog == <<lastOp, lastRes, nextCalls, hist, quiet, addLog, twin, twinRes>>

rotVars == <<rot, alive, rotLog>>

srvVars == <<requests, failures, justDoIt, stats, cancelled, listening, wg, servePc, closePc,
             conn, out, counted, phases>>

loadVars == <<input, loadPc, pos, loadErr>>
\* the variables of the specifications of single functions
codecVars == <<wire, target, encoded, reparsed, codecPc>>
httpVars == <<resp, up, sock, brBuf, body, delivered, httpPc>>
auxVars == <<loadVars, codecVars, httpVars, relaying, dialing>>
vars == <<rotVars, srvVars, auxVars>>

AllAlive == [p \in Proxies |-> TRUE]

Conns == 1..MaxConns

\* the locals of a connection worker before Serve accepted the connection;
\* the locals of connectToTarget are back at these values once its caller
\* has used the result.  dialLog lists the endpoints connectToTarget has
\* dialed in this invocation, buf holds the bytes negotiate or readRequest
\* has read, readErr the error of a failed read.
NoWorker ==
    [pc         |-> "idle",
     p          |-> Nil,
     maxRetries |-> 0,
     i          |-> 0,
     tried      |-> {},
     dialLog    |-> <<>>,
     lastErr    |-> ErrNone,
     err        |-> ErrNone,
     usedProxy  |-> Nil,
     targetConn |-> "none",
     copying    |-> {},
     buf        |-> <<>>,
     readErr    |-> ErrNone]

\* NewServer, before Listen
NoServer ==
    /\ requests = [p \in Proxies |-> 0]
    /\ failures = [p \in Proxies |-> 0]
    /\ justDoIt = FALSE
    /\ stats = [TotalRequests |-> 0, ActiveConns |-> 0, SuccessRequests |-> 0, FailedRequests |-> 0]
    /\ cancelled = FALSE
    /\ listening = FALSE
    /\ wg = 0
    /\ servePc = "none"
    /\ closePc = "none"
    /\ conn = [c \in Conns |-> NoWorker]
    /\ out = [c \in Conns |-> <<>>]
    /\ counted = [c \in Conns |-> [total |-> 0, success |-> 0, failed |-> 0]]
    /\ phases = [c \in Conns |-> {}]

NoResult == [proxy |-> Nil, err |-> ErrNone]

\* no load is going on
NoLoad ==
    /\ input = [src |-> "none", lines |-> <<>>, openErr |-> FALSE, readErrAt |-> 0]
    /\ loadPc = "none"
    /\ pos = 0
    /\ loadErr = ErrNone

\* no request is on its way through readRequest and dialSOCKS5
NoCodec ==
    /\ wire = <<>>
    /\ target = [target |-> <<>>, err |-> ErrNone]
    /\ encoded = [req |-> <<>>, err |-> ErrNone]
    /\ reparsed = [target |-> <<>>, err |-> ErrNone]
    /\ codecPc = "none"

\* http.NoBody
NoBody == [kind |-> "none", left |-> 0]

\* no HTTP upstream is being dialed
NoConnect ==
    /\ resp = [status |-> 0, length |-> -1, data |-> <<>>]
    /\ up = [hdr |-> FALSE, sent |-> 0, closed |-> FALSE]
    /\ sock = <<>>
    /\ brBuf = <<>>
    /\ body = NoBody
    /\ delivered = <<>>
    /\ httpPc = "none"

\* the two ends of a relay: the copy named d reads from d and writes to Other(d)
Sides == {"client", "target"}

Other(d) == IF d = "client" THEN "target" ELSE "client"

\* relay is not running
NoRelay ==
    relaying = [pc |-> "none", kind |-> "none",
                peerEOF |-> [d \in Sides |-> FALSE],
                copy |-> [d \in Sides |-> "none"],
                moved |-> [d \in Sides |-> 0],
                shut |-> [d \in Sides |-> FALSE]]

\* no SOCKS5 endpoint is being dialed
NoDial ==
    dialing = [pc |-> "none", p |-> Nil, alive |-> [q \in {Nil} |-> TRUE], target |-> <<>>,
               sent |-> <<>>, selected |-> -1, err |-> ErrNone]

NoAux == NoLoad /\ NoCodec /\ NoConnect /\ NoRelay /\ NoDial

InitRotator(strategy, skipDead, requestsPer) ==
    /\ rot = NewRotator(strategy, skipDead, requestsPer)
    /\ alive = AllAlive
    /\ lastOp = "NewRotator"
    /\ lastRes = NoResult
    /\ nextCalls = 0
    /\ hist = <<>>
    /\ quiet = 0
    /\ addLog = <<>>
    /\ twin = NewRotator(strategy, skipDead, requestsPer)
    /\ twinRes = NoResult

Init ==
    \E strategy \in {RotationRandom, RotationSequential},
       skipDead \in BOOLEAN,
       requestsPer \in RequestsPerChoices :
        /\ InitRotator(strategy, skipDead, requestsPer)
        /\ NoServer
        /\ NoAux

(***************************************************************************)
(* Spec: the Rotator's methods, called in any order                        *)
(***************************************************************************)
CallAddProxy(p) ==
    /\ Len(addLog) < MaxAdds
    /\ rot' = AddProxy(rot, p)
    /\ twin' = IF rot.skipDead THEN twin ELSE AddProxy(twin, p)
    /\ addLog' = Append(addLog, p)
    /\ hist' = IF String(p) \in rot.seen THEN hist ELSE <<>>
    /\ quiet' = IF String(p) \in rot.seen THEN quiet ELSE 0
    /\ lastOp' = "AddProxy"
    /\ UNCHANGED <<alive, lastRes, nextCalls, twinRes, srvVars>>
    /\ UNCHANGED auxVars

CallNext ==
    /\ nextCalls < MaxNext
    /\ \E js \in Draws(shuffleLen(rot, alive)) :
        LET n == Next(rot, alive, js)
            t == Next(twin, AllAlive, js)
        IN  /\ rot' = n.r
            /\ lastRes' = [proxy |-> n.proxy, err |-> n.err]
            /\ hist' = Append(hist, n.proxy)
            /\ twin' = IF rot.skipDead THEN twin ELSE t.r
            /\ twinRes' = IF rot.skipDead THEN twinRes ELSE [proxy |-> t.proxy, err |-> t.err]
    /\ nextCalls' = nextCalls + 1
    /\ quiet' = quiet + 1
    /\ lastOp' = "Next"
    /\ UNCHANGED <<alive, addLog, srvVars>>
    /\ UNCHANGED auxVars

CallMarkDead(p) ==
    /\ p \in Range(rot.proxies)
    /\ alive' = ProxyMarkDead(alive, p)
    /\ rot' = MarkDead(rot)
    /\ quiet' = 0
    /\ lastOp' = IF alive[p] THEN "MarkDead" ELSE "MarkDeadAgain"
    /\ UNCHANGED <<lastRes, nextCalls, hist, addLog, twin, twinRes, srvVars>>
    /\ UNCHANGED auxVars

NextRotator ==
    \/ \E p \in Proxies : CallAddProxy(p)
    \/ CallNext
    \/ \E p \in Proxies : CallMarkDead(p)

Spec == Init /\ [][NextRotator]_vars

(***************************************************************************)
(* pkg/server                                                              *)
(***************************************************************************)
socks5Version == 5
authNone == 0
authNoAccept == 255
cmdConnect == 1
addrIPv4 == 1
addrDomain == 3
addrIPv6 == 4
replySuccess == 0
replyGeneralFail == 1
replyHostUnreach == 4
replyCmdNotSupp == 7
replyAddrNotSupp == 8

\* the error of a failed Dialer.Dial
ErrDial == "dial failed"

\* the greetings a client may send: version and method list
Greetings ==
    {[ver |-> 4, methods |-> <<authNone>>]} \cup
    { [ver |-> socks5Version, methods |-> m] :
        m \in {<<>>, <<authNone>>, <<2>>, <<2, authNone>>} }

\* the request headers a client may send
Requests ==
    {[ver |-> 4, cmd |-> cmdConnect, atyp |-> addrIPv4],
     [ver |-> socks5Version, cmd |-> 2, atyp |-> 5]} \cup
    { [ver |-> socks5Version, cmd |-> cmdConnect, atyp |-> a] :
        a \in {addrIPv4, addrDomain, addrIPv6, 5} }

\* targetConn.LocalAddr() of the upstream connections of the model
BindAddrs == {"ip4"}

\* Server.sendReply: the message handed to conn.Write
sendReply(reply, addr) ==
    [ver  |-> socks5Version,
     rep  |-> reply,
     rsv  |-> 0,
     atyp |-> IF addr = "ip6" THEN addrIPv6 ELSE addrIPv4,
     bnd  |-> IF addr = "nil" THEN "0.0.0.0:0" ELSE addr,
     len  |-> IF addr = "ip6" THEN 22 ELSE 10]

\* the method selection message of negotiate
methodReply(m) == [ver |-> socks5Version, method |-> m]

\* maxRetries with a lower limit of 4
maxRetriesForFloorFour(count) ==
    IF count > 10 THEN 10 ELSE IF count < 4 THEN 4 ELSE count

\* maxRetries of connectToTarget
maxRetriesFor(count) ==
    IF count > 10 THEN 10 ELSE IF count < 3 THEN 3 ELSE count

\* LoadFromStrings at startup: the first n Proxy objects, in order
RECURSIVE LoadFromStrings(_, _)
LoadFromStrings(r, n) ==
    IF n = 0 THEN r ELSE AddProxy(LoadFromStrings(r, n - 1), NewProxy(n))

InitServer ==
    \E strategy \in {RotationRandom, RotationSequential},
       skipDead \in BOOLEAN,
       requestsPer \in RequestsPerChoices,
       jdi \in BOOLEAN,
       n \in 1..NumKeys :
        /\ rot = LoadFromStrings(NewRotator(strategy, skipDead, requestsPer), n)
        /\ alive = AllAlive
        /\ lastOp = "NewRotator"
        /\ lastRes = NoResult
        /\ nextCalls = 0
        /\ hist = <<>>
        /\ quiet = 0
        /\ addLog = <<>>
        /\ twin = NewRotator(strategy, skipDead, requestsPer)
        /\ twinRes = NoResult
        /\ requests = [p \in Proxies |-> 0]
        /\ failures = [p \in Proxies |-> 0]
        /\ justDoIt = jdi
        /\ stats = [TotalRequests |-> 0, ActiveConns |-> 0, SuccessRequests |-> 0,
                    FailedRequests |-> 0]
        /\ cancelled = FALSE
        /\ listening = TRUE
        /\ wg = 0
        /\ servePc = "accept"
        /\ closePc = "none"
        /\ conn = [c \in Conns |-> NoWorker]
        /\ out = [c \in Conns |-> <<>>]
        /\ counted = [c \in Conns |-> [total |-> 0, success |-> 0, failed |-> 0]]
        /\ phases = [c \in Conns |-> {}]
        /\ NoAux

\* the worker of connection c stands at label l
At(c, l) == conn[c].pc = l

Goto(c, l) == conn' = [conn EXCEPT ![c].pc = l]

Write(c, msg) == out' = [out EXCEPT ![c] = Append(@, msg)]

\* Serve: listener.Accept returns connection c
Accept(c) ==
    /\ servePc = "accept"
    /\ listening
    /\ At(c, "idle")
    /\ \A d \in Conns : d < c => ~At(d, "idle")
    /\ Goto(c, "accepted")
    /\ servePc' = "spawn"
    /\ UNCHANGED <<rotVars, requests, failures, justDoIt, stats, cancelled, listening, wg,
                   closePc, out, counted, phases>>
    /\ UNCHANGED auxVars

\* Serve counting the connection without starting handleConnection
SpawnWithoutWorker(c) ==
    /\ servePc = "spawn"
    /\ At(c, "accepted")
    /\ stats' = [stats EXCEPT !.ActiveConns = @ + 1]
    /\ wg' = wg + 1
    /\ servePc' = "accept"
    /\ UNCHANGED <<rotVars, requests, failures, justDoIt, cancelled, listening, closePc, conn,
                   out, counted, phases>>
    /\ UNCHANGED auxVars

\* Serve: ActiveConns.Add(1); wg.Add(1); go handleConnection(conn)
Spawn(c) ==
    /\ servePc = "spawn"
    /\ At(c, "accepted")
    /\ stats' = [stats EXCEPT !.ActiveConns = @ + 1]
    /\ wg' = wg + 1
    /\ Goto(c, "negotiate")
    /\ servePc' = "accept"
    /\ UNCHANGED <<rotVars, requests, failures, justDoIt, cancelled, listening, closePc, out,
                   counted, phases>>
    /\ UNCHANGED auxVars

\* Serve: Accept fails with net.ErrClosed and Serve returns
ServeReturn ==
    /\ servePc = "accept"
    /\ ~listening
    /\ servePc' = "returned"
    /\ UNCHANGED <<rotVars, requests, failures, justDoIt, stats, cancelled, listening, wg,
                   closePc, conn, out, counted, phases>>
    /\ UNCHANGED auxVars

\* Close: s.cancel()
CloseCancel ==
    /\ closePc = "none"
    /\ cancelled' = TRUE
    /\ closePc' = "cancelled"
    /\ UNCHANGED <<rotVars, requests, failures, justDoIt, stats, listening, wg, servePc,
                   conn, out, counted, phases>>
    /\ UNCHANGED auxVars

\* Close: s.listener.Close()
CloseListener ==
    /\ closePc = "cancelled"
    /\ listening' = FALSE
    /\ closePc' = "wait"
    /\ UNCHANGED <<rotVars, requests, failures, justDoIt, stats, cancelled, wg, servePc,
                   conn, out, counted, phases>>
    /\ UNCHANGED auxVars

\* Close: s.wg.Wait() returns
CloseWait ==
    /\ closePc = "wait"
    /\ wg = 0
    /\ closePc' = "returned"
    /\ UNCHANGED <<rotVars, requests, failures, justDoIt, stats, cancelled, listening, wg,
                   servePc, conn, out, counted, phases>>
    /\ UNCHANGED auxVars

\* the error of a failed io.ReadFull (EOF or the 10 s deadline)
ErrRead == "read failed"

\* worker c has done e
Did(c, e) == phases' = [phases EXCEPT ![c] = @ \cup e]

\* negotiate: the two reads.  The method list is only read after the version
\* check, so a greeting of another version leaves two bytes in buf.
ReadGreeting(c) ==
    /\ At(c, "negotiate")
    /\ \E g \in Greetings, readOk \in BOOLEAN :
        conn' = [conn EXCEPT ![c] =
                   IF ~readOk
                   THEN [conn[c] EXCEPT !.pc = "greeting", !.readErr = ErrRead]
                   ELSE [conn[c] EXCEPT !.pc = "greeting",
                                        !.buf = <<g.ver, Len(g.methods)>> \o
                                                (IF g.ver = socks5Version
                                                 THEN g.methods ELSE <<>>)]]
    /\ UNCHANGED <<rotVars, requests, failures, justDoIt, stats, cancelled, listening, wg,
                   servePc, closePc, out, counted, phases>>
    /\ UNCHANGED auxVars

\* negotiate looking at the first offered method only
selectMethodFirstOnly(b) ==
    IF Len(b) >= 3 /\ b[3] = authNone THEN authNone ELSE authNoAccept

\* negotiate: the scan of the method list b[3..] for authNone
selectMethod(b) ==
    IF \E k \in 3..Len(b) : b[k] = authNone THEN authNone ELSE authNoAccept

\* handleConnection: what negotiate does with the greeting it read, and the
\* return on its error.  writeOk is FALSE when the write of 05 00 fails.
Negotiate(c) ==
    /\ At(c, "greeting")
    /\ LET b == conn[c].buf
           done(l) == [conn[c] EXCEPT !.pc = l, !.buf = <<>>, !.readErr = ErrNone]
       IN  IF conn[c].readErr # ErrNone \/ b[1] # socks5Version
           THEN /\ conn' = [conn EXCEPT ![c] = done("closing")]
                /\ UNCHANGED <<out, phases>>
           ELSE IF selectMethod(b) = authNone
           THEN /\ Write(c, methodReply(authNone))
                /\ \E writeOk \in BOOLEAN :
                    /\ conn' = [conn EXCEPT ![c] =
                                  done(IF writeOk THEN "readRequest" ELSE "closing")]
                    /\ Did(c, IF writeOk THEN {"greeting"} ELSE {})
           ELSE /\ Write(c, methodReply(authNoAccept))
                /\ conn' = [conn EXCEPT ![c] = done("closing")]
                /\ UNCHANGED phases
    /\ UNCHANGED <<rotVars, requests, failures, justDoIt, stats, cancelled, listening, wg,
                   servePc, closePc, counted>>
    /\ UNCHANGED auxVars

\* readRequest: the reads.  A failed read of the header leaves buf empty; a
\* failed read of the address or the port leaves the header in buf.  The
\* address and the port are only read after a CONNECT header of version 5
\* with a known address type.
ReadHeader(c) ==
    /\ At(c, "readRequest")
    /\ \E q \in Requests, headerOk \in BOOLEAN, restOk \in BOOLEAN :
        conn' = [conn EXCEPT ![c] =
                   IF ~headerOk
                   THEN [conn[c] EXCEPT !.pc = "request", !.readErr = ErrRead]
                   ELSE [conn[c] EXCEPT !.pc = "request",
                                        !.buf = <<q.ver, q.cmd, 0, q.atyp>>,
                                        !.readErr =
                                            IF \/ restOk
                                               \/ q.ver # socks5Version
                                               \/ q.cmd # cmdConnect
                                               \/ q.atyp \notin {addrIPv4, addrDomain, addrIPv6}
                                            THEN ErrNone ELSE ErrRead]]
    /\ UNCHANGED <<rotVars, requests, failures, justDoIt, stats, cancelled, listening, wg,
                   servePc, closePc, out, counted, phases>>
    /\ UNCHANGED auxVars

\* readRequest without the default case of the address type switch
readRequestRepliesAnyAtyp(b, e) ==
    IF b = <<>> \/ b[1] # socks5Version THEN <<replyGeneralFail>>
    ELSE IF b[2] # cmdConnect THEN <<replyCmdNotSupp, replyGeneralFail>>
    ELSE IF e # ErrNone THEN <<replyGeneralFail>>
    ELSE <<>>

\* the reply codes readRequest and the error branch of handleConnection send
\* for header b and read error e; none when the request is accepted
readRequestReplies(b, e) ==
    IF b = <<>> \/ b[1] # socks5Version THEN <<replyGeneralFail>>
    ELSE IF b[2] # cmdConnect THEN <<replyCmdNotSupp, replyGeneralFail>>
    ELSE IF b[4] \notin {addrIPv4, addrDomain, addrIPv6}
         THEN <<replyAddrNotSupp, replyGeneralFail>>
    ELSE IF e # ErrNone THEN <<replyGeneralFail>>
    ELSE <<>>

\* handleConnection: what readRequest does with the header it read, then
\* either the reply 01 of the error branch or SetDeadline and
\* TotalRequests.Add(1)
ReadRequest(c) ==
    /\ At(c, "request")
    /\ LET rs == readRequestReplies(conn[c].buf, conn[c].readErr)
           done(l) == [conn[c] EXCEPT !.pc = l, !.buf = <<>>, !.readErr = ErrNone]
       IN  IF rs # <<>>
           THEN /\ out' = [out EXCEPT ![c] =
                             @ \o [k \in 1..Len(rs) |-> sendReply(rs[k], "nil")]]
                /\ conn' = [conn EXCEPT ![c] = done("closing")]
                /\ UNCHANGED <<stats, counted, phases>>
           ELSE /\ conn' = [conn EXCEPT ![c] = done(IF justDoIt THEN "justDoIt" ELSE "connect")]
                /\ stats' = [stats EXCEPT !.TotalRequests = @ + 1]
                /\ counted' = [counted EXCEPT ![c].total = @ + 1]
                /\ Did(c, {"request"})
                /\ UNCHANGED out
    /\ UNCHANGED <<rotVars, requests, failures, justDoIt, cancelled, listening, wg, servePc,
                   closePc>>
    /\ UNCHANGED auxVars

\* the select at the top of the loop counting a cancelled request as failed
JustDoItTopCountsFailure(c) ==
    /\ At(c, "justDoIt")
    /\ IF cancelled
       THEN /\ Write(c, sendReply(replyGeneralFail, "nil"))
            /\ stats' = [stats EXCEPT !.FailedRequests = @ + 1]
            /\ counted' = [counted EXCEPT ![c].failed = @ + 1]
            /\ Goto(c, "closing")
       ELSE /\ Goto(c, "connect")
            /\ UNCHANGED <<out, stats, counted>>
    /\ UNCHANGED <<rotVars, requests, failures, justDoIt, cancelled, listening, wg,
                   servePc, closePc, phases>>
    /\ UNCHANGED auxVars

\* handleJustDoIt: the select at the top of the loop
JustDoItTop(c) ==
    /\ At(c, "justDoIt")
    /\ IF cancelled
       THEN /\ Write(c, sendReply(replyGeneralFail, "nil"))
            /\ Goto(c, "closing")
       ELSE /\ Goto(c, "connect")
            /\ UNCHANGED out
    /\ UNCHANGED <<rotVars, requests, failures, justDoIt, stats, cancelled, listening, wg,
                   servePc, closePc, counted, phases>>
    /\ UNCHANGED auxVars

\* connectToTarget returns (nil, nil, e)
ReturnErr(c, e) ==
    [conn[c] EXCEPT !.pc = "result", !.err = e, !.usedProxy = Nil, !.targetConn = "none"]

\* connectToTarget: the first rotator.Next(), then maxRetries from
\* rotator.Count() (no AddProxy runs once the server listens, so Count is
\* read in the same step), lastErr and tried
ConnectFirstNext(c) ==
    /\ At(c, "connect")
    /\ \E js \in Draws(shuffleLen(rot, alive)) :
        LET n == Next(rot, alive, js)
        IN  /\ rot' = n.r
            /\ conn' = [conn EXCEPT ![c] =
                          IF n.err # ErrNone
                          THEN ReturnErr(c, n.err)
                          ELSE [conn[c] EXCEPT !.pc = "loop",
                                               !.p = n.proxy,
                                               !.maxRetries = maxRetriesFor(Count(rot)),
                                               !.i = 0,
                                               !.tried = {},
                                               !.dialLog = <<>>,
                                               !.lastErr = ErrNone]]
    /\ Did(c, {"next"})
    /\ UNCHANGED <<alive, rotLog, requests, failures, justDoIt, stats, cancelled, listening,
                   wg, servePc, closePc, out, counted>>
    /\ UNCHANGED auxVars

\* connectToTarget: the loop ends after maxRetries rounds
ConnectExhausted(c) ==
    /\ At(c, "loop")
    /\ conn[c].i >= conn[c].maxRetries
    /\ conn' = [conn EXCEPT ![c] = ReturnErr(c, conn[c].lastErr)]
    /\ UNCHANGED <<rotVars, requests, failures, justDoIt, stats, cancelled, listening, wg,
                   servePc, closePc, out, counted, phases>>
    /\ UNCHANGED auxVars

\* connectToTarget: p was tried already, fetch another one
ConnectSkipTried(c) ==
    /\ At(c, "loop")
    /\ conn[c].i < conn[c].maxRetries
    /\ conn[c].p \in conn[c].tried
    /\ \E js \in Draws(shuffleLen(rot, alive)) :
        LET n == Next(rot, alive, js)
        IN  /\ rot' = n.r
            /\ conn' = [conn EXCEPT ![c] =
                          IF n.err # ErrNone
                          THEN ReturnErr(c, conn[c].lastErr)
                          ELSE [conn[c] EXCEPT !.p = n.proxy, !.i = @ + 1]]
    /\ Did(c, {"next"})
    /\ UNCHANGED <<alive, rotLog, requests, failures, justDoIt, stats, cancelled, listening,
                   wg, servePc, closePc, out, counted>>
    /\ UNCHANGED auxVars

\* the dial without tried[p] = true
ConnectDialForgets(c) ==
    /\ At(c, "loop")
    /\ conn[c].i < conn[c].maxRetries
    /\ conn[c].p \notin conn[c].tried
    /\ \E ok \in BOOLEAN :
        /\ conn' = [conn EXCEPT ![c] =
                      IF ok
                      THEN [conn[c] EXCEPT !.pc = "result",
                                           !.dialLog = Append(@, conn[c].p),
                                           !.err = ErrNone, !.usedProxy = conn[c].p,
                                           !.targetConn = "open"]
                      ELSE [conn[c] EXCEPT !.pc = "markDead",
                                           !.dialLog = Append(@, conn[c].p),
                                           !.lastErr = ErrDial]]
        /\ Did(c, IF ok THEN {"dial", "dialOk"} ELSE {"dial"})
    /\ UNCHANGED <<rotVars, requests, failures, justDoIt, stats, cancelled, listening, wg,
                   servePc, closePc, out, counted>>
    /\ UNCHANGED auxVars

\* connectToTarget: tried[p] = true and dialer.Dial(p, target), which
\* succeeds or fails
ConnectDial(c) ==
    /\ At(c, "loop")
    /\ conn[c].i < conn[c].maxRetries
    /\ conn[c].p \notin conn[c].tried
    /\ \E ok \in BOOLEAN :
        /\ conn' = [conn EXCEPT ![c] =
                      IF ok
                      THEN [conn[c] EXCEPT !.pc = "result", !.tried = @ \cup {conn[c].p},
                                           !.dialLog = Append(@, conn[c].p),
                                           !.err = ErrNone, !.usedProxy = conn[c].p,
                                           !.targetConn = "open"]
                      ELSE [conn[c] EXCEPT !.pc = "markDead", !.tried = @ \cup {conn[c].p},
                                           !.dialLog = Append(@, conn[c].p),
                                           !.lastErr = ErrDial]]
        /\ Did(c, IF ok THEN {"dial", "dialOk"} ELSE {"dial"})
    /\ UNCHANGED <<rotVars, requests, failures, justDoIt, stats, cancelled, listening, wg,
                   servePc, closePc, out, counted>>
    /\ UNCHANGED auxVars

\* connectToTarget: rotator.MarkDead(p) after the failed dial
ConnectMarkDead(c) ==
    /\ At(c, "markDead")
    /\ alive' = ProxyMarkDead(alive, conn[c].p)
    /\ rot' = MarkDead(rot)
    /\ Goto(c, "next")
    /\ UNCHANGED <<rotLog, requests, failures, justDoIt, stats, cancelled, listening, wg,
                   servePc, closePc, out, counted, phases>>
    /\ UNCHANGED auxVars

\* connectToTarget: rotator.Next() after MarkDead, and i++
ConnectNext(c) ==
    /\ At(c, "next")
    /\ \E js \in Draws(shuffleLen(rot, alive)) :
        LET n == Next(rot, alive, js)
        IN  /\ rot' = n.r
            /\ conn' = [conn EXCEPT ![c] =
                          IF n.err # ErrNone
                          THEN ReturnErr(c, conn[c].lastErr)
                          ELSE [conn[c] EXCEPT !.pc = "loop", !.p = n.proxy, !.i = @ + 1]]
    /\ Did(c, {"next"})
    /\ UNCHANGED <<alive, rotLog, requests, failures, justDoIt, stats, cancelled, listening,
                   wg, servePc, closePc, out, counted>>
    /\ UNCHANGED auxVars

\* Proxy.RecordFailure when usedProxy is not nil
RecordFailure(f, p) == IF p = Nil THEN f ELSE [f EXCEPT ![p] = @ + 1]

\* a RecordRequest that adds two
RecordRequestTwice(q, p) == IF p = Nil THEN q ELSE [q EXCEPT ![p] = @ + 2]

\* Proxy.RecordRequest when usedProxy is not nil
RecordRequest(q, p) == IF p = Nil THEN q ELSE [q EXCEPT ![p] = @ + 1]

\* the success path going on to relay when the write of the reply failed
HandleSuccessRelaysUnwritten(c) ==
    /\ At(c, "result")
    /\ conn[c].err = ErrNone
    /\ stats' = [stats EXCEPT !.SuccessRequests = @ + 1]
    /\ counted' = [counted EXCEPT ![c].success = @ + 1]
    /\ requests' = RecordRequest(requests, conn[c].usedProxy)
    /\ \E addr \in BindAddrs : Write(c, sendReply(replySuccess, addr))
    /\ \E writeOk \in BOOLEAN :
        /\ conn' = [conn EXCEPT ![c] =
                      [NoWorker EXCEPT !.pc = "relay", !.targetConn = "open",
                                       !.copying = {"up", "down"}]]
        /\ Did(c, IF writeOk THEN {"success"} ELSE {})
    /\ UNCHANGED <<rotVars, failures, justDoIt, cancelled, listening, wg, servePc, closePc>>
    /\ UNCHANGED auxVars

\* handleNormal and handleJustDoIt: connectToTarget succeeded.  writeOk is
\* FALSE when the write of the success reply fails.
HandleSuccess(c) ==
    /\ At(c, "result")
    /\ conn[c].err = ErrNone
    /\ stats' = [stats EXCEPT !.SuccessRequests = @ + 1]
    /\ counted' = [counted EXCEPT ![c].success = @ + 1]
    /\ requests' = RecordRequest(requests, conn[c].usedProxy)
    /\ \E addr \in BindAddrs : Write(c, sendReply(replySuccess, addr))
    /\ \E writeOk \in BOOLEAN :
        /\ conn' = [conn EXCEPT ![c] =
                      IF writeOk
                      THEN [NoWorker EXCEPT !.pc = "relay", !.targetConn = "open",
                                            !.copying = {"up", "down"}]
                      ELSE [NoWorker EXCEPT !.pc = "closing", !.targetConn = "closed"]]
        /\ Did(c, IF writeOk THEN {"success"} ELSE {})
    /\ UNCHANGED <<rotVars, failures, justDoIt, cancelled, listening, wg, servePc, closePc>>
    /\ UNCHANGED auxVars

\* handleNormal answering an upstream failure with reply 01
HandleNormalFailureGeneralFail(c) ==
    /\ At(c, "result")
    /\ ~justDoIt
    /\ conn[c].err # ErrNone
    /\ stats' = [stats EXCEPT !.FailedRequests = @ + 1]
    /\ counted' = [counted EXCEPT ![c].failed = @ + 1]
    /\ failures' = RecordFailure(failures, conn[c].usedProxy)
    /\ Write(c, sendReply(replyGeneralFail, "nil"))
    /\ conn' = [conn EXCEPT ![c] = [NoWorker EXCEPT !.pc = "closing"]]
    /\ UNCHANGED <<rotVars, requests, justDoIt, cancelled, listening, wg, servePc, closePc,
                   phases>>
    /\ UNCHANGED auxVars

\* handleNormal: connectToTarget failed
HandleNormalFailure(c) ==
    /\ At(c, "result")
    /\ ~justDoIt
    /\ conn[c].err # ErrNone
    /\ stats' = [stats EXCEPT !.FailedRequests = @ + 1]
    /\ counted' = [counted EXCEPT ![c].failed = @ + 1]
    /\ failures' = RecordFailure(failures, conn[c].usedProxy)
    /\ Write(c, sendReply(replyHostUnreach, "nil"))
    /\ conn' = [conn EXCEPT ![c] = [NoWorker EXCEPT !.pc = "closing"]]
    /\ UNCHANGED <<rotVars, requests, justDoIt, cancelled, listening, wg, servePc, closePc, phases>>
    /\ UNCHANGED auxVars

\* handleJustDoIt counting a failed request after every failed round
HandleJustDoItFailureCountsEveryRound(c) ==
    /\ At(c, "result")
    /\ justDoIt
    /\ conn[c].err # ErrNone
    /\ failures' = RecordFailure(failures, conn[c].usedProxy)
    /\ stats' = [stats EXCEPT !.FailedRequests = @ + 1]
    /\ counted' = [counted EXCEPT ![c].failed = @ + 1]
    /\ IF conn[c].err = ErrAllProxiesDead
       THEN /\ Write(c, sendReply(replyHostUnreach, "nil"))
            /\ conn' = [conn EXCEPT ![c] = [NoWorker EXCEPT !.pc = "closing"]]
       ELSE /\ conn' = [conn EXCEPT ![c] = [NoWorker EXCEPT !.pc = "justDoIt"]]
            /\ UNCHANGED out
    /\ UNCHANGED <<rotVars, requests, justDoIt, cancelled, listening, wg, servePc, closePc, phases>>
    /\ UNCHANGED auxVars

\* handleJustDoIt giving up after the first failed round
HandleJustDoItFailureGivesUp(c) ==
    /\ At(c, "result")
    /\ justDoIt
    /\ conn[c].err # ErrNone
    /\ failures' = RecordFailure(failures, conn[c].usedProxy)
    /\ stats' = [stats EXCEPT !.FailedRequests = @ + 1]
    /\ counted' = [counted EXCEPT ![c].failed = @ + 1]
    /\ Write(c, sendReply(replyHostUnreach, "nil"))
    /\ conn' = [conn EXCEPT ![c] = [NoWorker EXCEPT !.pc = "closing"]]
    /\ UNCHANGED <<rotVars, requests, justDoIt, cancelled, listening, wg, servePc, closePc,
                   phases>>
    /\ UNCHANGED auxVars

\* handleJustDoIt: connectToTarget failed
HandleJustDoItFailure(c) ==
    /\ At(c, "result")
    /\ justDoIt
    /\ conn[c].err # ErrNone
    /\ failures' = RecordFailure(failures, conn[c].usedProxy)
    /\ IF conn[c].err = ErrAllProxiesDead
       THEN /\ stats' = [stats EXCEPT !.FailedRequests = @ + 1]
            /\ counted' = [counted EXCEPT ![c].failed = @ + 1]
            /\ Write(c, sendReply(replyHostUnreach, "nil"))
            /\ conn' = [conn EXCEPT ![c] = [NoWorker EXCEPT !.pc = "closing"]]
       ELSE \* time.Sleep(100 ms); continue
            /\ conn' = [conn EXCEPT ![c] = [NoWorker EXCEPT !.pc = "justDoIt"]]
            /\ UNCHANGED <<stats, counted, out>>
    /\ UNCHANGED <<rotVars, requests, justDoIt, cancelled, listening, wg, servePc, closePc, phases>>
    /\ UNCHANGED auxVars

\* relay: the copy in direction d has moved its bytes, ends and half-closes
\* the other side
RelayCopyEnds(c, d) ==
    /\ At(c, "relay")
    /\ d \in conn[c].copying
    /\ conn' = [conn EXCEPT ![c].copying = @ \ {d}]
    /\ Did(c, {"relay"})
    /\ UNCHANGED <<rotVars, requests, failures, justDoIt, stats, cancelled, listening, wg,
                   servePc, closePc, out, counted>>
    /\ UNCHANGED auxVars

\* relay: wg.Wait() returns, then targetConn.Close()
RelayReturn(c) ==
    /\ At(c, "relay")
    /\ conn[c].copying = {}
    /\ conn' = [conn EXCEPT ![c].pc = "closing", ![c].targetConn = "closed"]
    /\ UNCHANGED <<rotVars, requests, failures, justDoIt, stats, cancelled, listening, wg,
                   servePc, closePc, out, counted, phases>>
    /\ UNCHANGED auxVars

\* the deferred function without ActiveConns.Add(-1)
ClosingKeepsCount(c) ==
    /\ At(c, "closing")
    /\ wg' = wg - 1
    /\ Goto(c, "closed")
    /\ UNCHANGED <<rotVars, requests, failures, justDoIt, stats, cancelled, listening, servePc,
                   closePc, out, counted, phases>>
    /\ UNCHANGED auxVars

\* handleConnection: the deferred conn.Close(), ActiveConns.Add(-1), wg.Done()
Closing(c) ==
    /\ At(c, "closing")
    /\ stats' = [stats EXCEPT !.ActiveConns = @ - 1]
    /\ wg' = wg - 1
    /\ Goto(c, "closed")
    /\ UNCHANGED <<rotVars, requests, failures, justDoIt, cancelled, listening, servePc,
                   closePc, out, counted, phases>>
    /\ UNCHANGED auxVars

\* one step of the worker of connection c
Worker(c) ==
    \/ ReadGreeting(c)
    \/ Negotiate(c)
    \/ ReadHeader(c)
    \/ ReadRequest(c)
    \/ JustDoItTop(c)
    \/ ConnectFirstNext(c)
    \/ ConnectExhausted(c)
    \/ ConnectSkipTried(c)
    \/ ConnectDial(c)
    \/ ConnectMarkDead(c)
    \/ ConnectNext(c)
    \/ HandleSuccess(c)
    \/ HandleNormalFailure(c)
    \/ HandleJustDoItFailure(c)
    \/ \E d \in {"up", "down"} : RelayCopyEnds(c, d)
    \/ RelayReturn(c)
    \/ Closing(c)

NextServer ==
    \/ \E c \in Conns : Accept(c)
    \/ \E c \in Conns : Spawn(c)
    \/ ServeReturn
    \/ CloseCancel
    \/ CloseListener
    \/ CloseWait
    \/ \E c \in Conns : Worker(c)

SpecServer == InitServer /\ [][NextServer]_vars

\* the server started with NumKeys endpoints and the Sequential strategy
InitFair ==
    /\ InitServer
    /\ rot.strategy = RotationSequential
    /\ Len(rot.proxies) = NumKeys

\* Every goroutine that can take a step eventually takes one: Serve and the
\* connection workers.  Nothing makes the operator call Close.
FairSpecServer ==
    /\ InitFair
    /\ [][NextServer]_vars
    /\ \A c \in Conns : WF_vars(Worker(c))
    /\ \A c \in Conns : WF_vars(Spawn(c))

(***************************************************************************)
(* SpecLoader: LoadFromFile and LoadFromStrings fill a new Rotator         *)
(***************************************************************************)
\* A line of a proxy list, by what the loader and url.Parse see of it:
\*   pad     white space around the text
\*   hash    the text starts with '#'
\*   bad     url.Parse rejects the text
\*   scheme, user, host, port   the parts url.Parse finds
\*   long    the line does not fit the token buffer of bufio.Scanner (64 KiB)
URL(pad, hash, bad, scheme, user, host, port, long) ==
    [pad |-> pad, hash |-> hash, bad |-> bad, scheme |-> scheme, user |-> user,
     host |-> host, port |-> port, long |-> long]

\* the lines a proxy list is made of in this model
SampleLines ==
    { URL(TRUE,  FALSE, FALSE, "",       "",     "",  "",     FALSE),   \* "   "
      URL(FALSE, TRUE,  FALSE, "http",   "",     "a", "1080", FALSE),   \* "# http://a:1080"
      URL(FALSE, FALSE, TRUE,  "http",   "",     "a", "1080", FALSE),   \* "http://a:1080%"
      URL(FALSE, FALSE, FALSE, "http",   "",     "",  "",     FALSE),   \* "http://"
      URL(FALSE, FALSE, FALSE, "ftp",    "",     "a", "1080", FALSE),   \* "ftp://a:1080"
      URL(FALSE, FALSE, FALSE, "http",   "",     "a", "1080", FALSE),   \* "http://a:1080"
      URL(FALSE, FALSE, FALSE, "http",   "user", "a", "1080", FALSE),   \* "http://user@a:1080"
      URL(TRUE,  FALSE, FALSE, "HTTPS",  "",     "a", "",     FALSE),   \* " HTTPS://a "
      URL(FALSE, FALSE, FALSE, "socks5", "",     "b", "",     FALSE),   \* "socks5://b"
      URL(FALSE, FALSE, FALSE, "socks4", "user", "c", "1080", TRUE) }   \* "socks4://user...@c:1080"

\* strings.TrimSpace
TrimSpace(line) == [line EXCEPT !.pad = FALSE]

\* len(text) = 0
IsEmpty(line) ==
    /\ ~line.pad /\ ~line.hash /\ ~line.bad
    /\ line.scheme = "" /\ line.user = "" /\ line.host = "" /\ line.port = ""

\* strings.ToLower(u.Scheme)
SchemeToLower(scheme) ==
    CASE scheme = "HTTP"   -> "http"
      [] scheme = "HTTPS"  -> "https"
      [] scheme = "SOCKS4" -> "socks4"
      [] scheme = "SOCKS5" -> "socks5"
      [] OTHER             -> scheme

\* the schemes NewProxy knows, each with its ProxyType and its default port
Schemes ==
    [http   |-> [Type |-> "HTTP",   Port |-> "80"],
     https  |-> [Type |-> "HTTPS",  Port |-> "443"],
     socks4 |-> [Type |-> "SOCKS4", Port |-> "1080"],
     socks5 |-> [Type |-> "SOCKS5", Port |-> "1080"]]

\* NewProxy(rawURL); id names the Proxy object it allocates.  url.Parse takes
\* a leading '#' as the start of the fragment, which leaves no host.
NewProxyURL(rawURL, id) ==
    LET u == TrimSpace(rawURL)
        scheme == SchemeToLower(u.scheme)
    IN  IF IsEmpty(u) THEN [proxy |-> Nil, err |-> "empty proxy URL"]
        ELSE IF u.bad THEN [proxy |-> Nil, err |-> "invalid proxy URL"]
        ELSE IF u.hash \/ u.host = "" THEN [proxy |-> Nil, err |-> "missing hostname"]
        ELSE IF scheme \notin DOMAIN Schemes
             THEN [proxy |-> Nil, err |-> "unsupported proxy scheme"]
        ELSE [proxy |-> [id       |-> id,
                         Type     |-> Schemes[scheme].Type,
                         Host     |-> u.host,
                         Port     |-> IF u.port = "" THEN Schemes[scheme].Port ELSE u.port,
                         Username |-> u.user],
              err   |-> ErrNone]

\* the errors of os.Open, of a failed read and of bufio.Scanner (bufio.ErrTooLong)
ErrOpen == "open failed"
ErrIO == "read error"
ErrTooLong == "bufio.Scanner: token too long"

\* the proxy lists of this model
Lists == UNION { [1..n -> SampleLines] : n \in 0..MaxLines }

\* a call of LoadFromFile or LoadFromStrings on a new Rotator
InitLoader ==
    /\ InitRotator(RotationSequential, FALSE, 1)
    /\ NoServer
    /\ \E lines \in Lists, src \in {"file", "strings"}, openErr \in BOOLEAN,
          readErrAt \in 0..MaxLines :
         /\ readErrAt <= Len(lines)
         /\ openErr => readErrAt = 0
         /\ src = "strings" => ~openErr /\ readErrAt = 0
         /\ input = [src |-> src, lines |-> lines, openErr |-> openErr,
                     readErrAt |-> readErrAt]
    /\ loadPc = "call"
    /\ pos = 0
    /\ loadErr = ErrNone
    /\ NoCodec
    /\ NoConnect
    /\ NoRelay
    /\ NoDial

notLoadVars == <<alive, rotLog, srvVars, codecVars, httpVars, relaying, dialing>>

\* LoadFromFile: os.Open
LoadFromFileOpen ==
    /\ loadPc = "call"
    /\ input.src = "file"
    /\ IF input.openErr
       THEN loadErr' = ErrOpen /\ loadPc' = "returned"
       ELSE loadErr' = ErrNone /\ loadPc' = "scan"
    /\ UNCHANGED <<rot, input, pos, notLoadVars>>

\* the body of the loops of LoadFromFile and LoadFromStrings
loadLine(r, line, id) ==
    LET n == NewProxyURL(line, id)
    IN  IF n.err # ErrNone THEN r ELSE AddProxy(r, n.proxy)

\* LoadFromFile: one call of scanner.Scan with the body of the loop, or the
\* end of the loop with return scanner.Err()
LoadFromFileScan ==
    /\ loadPc = "scan"
    /\ IF pos = Len(input.lines)
       THEN /\ loadErr' = ErrNone
            /\ loadPc' = "returned"
            /\ UNCHANGED <<rot, pos>>
       ELSE IF input.readErrAt = pos + 1
       THEN /\ loadErr' = ErrIO
            /\ loadPc' = "returned"
            /\ UNCHANGED <<rot, pos>>
       ELSE IF input.lines[pos + 1].long
       THEN /\ loadErr' = ErrTooLong
            /\ loadPc' = "returned"
            /\ UNCHANGED <<rot, pos>>
       ELSE LET line == TrimSpace(input.lines[pos + 1])
            IN  /\ rot' = IF IsEmpty(line) \/ line.hash
                          THEN rot
                          ELSE loadLine(rot, line, pos + 1)
                /\ pos' = pos + 1
                /\ UNCHANGED <<loadErr, loadPc>>
    /\ UNCHANGED <<input, notLoadVars>>

\* LoadFromStrings: one turn of the loop, or return nil
LoadFromStringsStep ==
    /\ loadPc = "call"
    /\ input.src = "strings"
    /\ IF pos = Len(input.lines)
       THEN /\ loadErr' = ErrNone
            /\ loadPc' = "returned"
            /\ UNCHANGED <<rot, pos>>
       ELSE /\ rot' = loadLine(rot, input.lines[pos + 1], pos + 1)
            /\ pos' = pos + 1
            /\ UNCHANGED <<loadErr, loadPc>>
    /\ UNCHANGED <<input, notLoadVars>>

NextLoader ==
    \/ LoadFromFileOpen
    \/ LoadFromFileScan
    \/ LoadFromStringsStep

SpecLoader == InitLoader /\ [][NextLoader]_vars

(***************************************************************************)
(* SpecCodec: a CONNECT request goes through readRequest, the request      *)
(* encoder of dialSOCKS5 and readRequest again.  A string is the sequence  *)
(* of its bytes: '.' is 46, ':' 58, '0' 48, 'a' 97, '[' 91, ']' 93.        *)
(***************************************************************************)
\* strconv.Itoa and the %d of fmt.Sprintf, for n >= 0
RECURSIVE Itoa(_)
Itoa(n) == IF n < 10 THEN <<48 + n>> ELSE Append(Itoa(n \div 10), 48 + (n % 10))

\* the lower-case hexadecimal digits of n, without leading zeros
RECURSIVE appendHex(_)
appendHex(n) ==
    LET digit(d) == IF d < 10 THEN 48 + d ELSE 87 + d
    IN  IF n < 16 THEN <<digit(n)>> ELSE Append(appendHex(n \div 16), digit(n % 16))

\* net.IP.To4 of a 16-byte address: the last four bytes of an IPv4-mapped
\* address, nil (the empty sequence) otherwise
To4(ip) ==
    IF Len(ip) = 4 THEN ip
    ELSE IF (\A i \in 1..10 : ip[i] = 0) /\ ip[11] = 255 /\ ip[12] = 255
         THEN SubSeq(ip, 13, 16)
         ELSE <<>>

\* the 16-bit groups of a 16-byte address
Groups(ip) == [i \in 1..8 |-> ip[2 * i - 1] * 256 + ip[2 * i]]

\* number of zero groups in a row from group i on
RECURSIVE zeroRun(_, _)
zeroRun(g, i) == IF i > 8 \/ g[i] # 0 THEN 0 ELSE 1 + zeroRun(g, i + 1)

\* net.IP.String of a 16-byte address that is not IPv4-mapped: the first
\* longest run of two or more zero groups is written "::"
RECURSIVE ipv6From(_, _, _, _)
ipv6From(g, i, e0, e1) ==
    IF i > 8 THEN <<>>
    ELSE IF i = e0
         THEN <<58, 58>> \o (IF e1 > 8 THEN <<>>
                             ELSE appendHex(g[e1]) \o ipv6From(g, e1 + 1, e0, e1))
         ELSE (IF i > 1 THEN <<58>> ELSE <<>>) \o appendHex(g[i]) \o ipv6From(g, i + 1, e0, e1)

\* net.IP.String
IPString(ip) ==
    LET ip4 == To4(ip)
        g == Groups(ip)
        best == CHOOSE n \in 0..8 :
                    /\ \E i \in 1..8 : zeroRun(g, i) = n
                    /\ \A i \in 1..8 : zeroRun(g, i) <= n
        e0 == IF best < 2 THEN 0
              ELSE CHOOSE i \in 1..8 :
                       /\ zeroRun(g, i) = best
                       /\ \A j \in 1..(i - 1) : zeroRun(g, j) < best
    IN  IF ip4 # <<>>
        THEN Itoa(ip4[1]) \o <<46>> \o Itoa(ip4[2]) \o <<46>> \o Itoa(ip4[3])
                 \o <<46>> \o Itoa(ip4[4])
        ELSE ipv6From(g, 1, e0, e0 + best)

\* readRequest: the port and the target string
withPort(host, rest) ==
    IF Len(rest) < 2
    THEN [target |-> <<>>, err |-> ErrRead]
    ELSE [target |-> host \o <<58>> \o Itoa(rest[1] * 256 + rest[2]), err |-> ErrNone]

\* readRequest on the bytes b the peer sent
readRequest(b) ==
    IF Len(b) < 4 THEN [target |-> <<>>, err |-> ErrRead]
    ELSE IF b[1] # socks5Version THEN [target |-> <<>>, err |-> "bad version"]
    ELSE IF b[2] # cmdConnect THEN [target |-> <<>>, err |-> "unsupported cmd"]
    ELSE LET rest == SubSeq(b, 5, Len(b))
         IN  CASE b[4] = addrIPv4 ->
                      IF Len(rest) < 4 THEN [target |-> <<>>, err |-> ErrRead]
                      ELSE withPort(IPString(SubSeq(rest, 1, 4)), SubSeq(rest, 5, Len(rest)))
               [] b[4] = addrDomain ->
                      IF Len(rest) < 1 \/ Len(rest) < 1 + rest[1]
                      THEN [target |-> <<>>, err |-> ErrRead]
                      ELSE withPort(SubSeq(rest, 2, 1 + rest[1]),
                                    SubSeq(rest, 2 + rest[1], Len(rest)))
               [] b[4] = addrIPv6 ->
                      IF Len(rest) < 16 THEN [target |-> <<>>, err |-> ErrRead]
                      ELSE withPort(IPString(SubSeq(rest, 1, 16)), SubSeq(rest, 17, Len(rest)))
               [] OTHER -> [target |-> <<>>, err |-> "bad addr type"]

\* the positions of byte c in s
Indexes(s, c) == { i \in 1..Len(s) : s[i] = c }

Last(S) == CHOOSE i \in S : \A j \in S : j <= i

\* net.SplitHostPort
SplitHostPort(hostport) ==
    LET colons == Indexes(hostport, 58)
        i == Last(colons)
        close == Indexes(hostport, 93)
        fail(e) == [host |-> <<>>, port |-> <<>>, err |-> e]
    IN  IF colons = {} THEN fail("missing port in address")
        ELSE IF hostport[1] = 91
        THEN IF close = {} THEN fail("missing ']' in address")
             ELSE IF Last(close) + 1 # i
                  THEN fail(IF Last(close) = Len(hostport)
                            THEN "missing port in address"
                            ELSE "too many colons in address")
             ELSE IF Cardinality(close) > 1 \/ Cardinality(Indexes(hostport, 91)) > 1
                  THEN fail("unexpected bracket in address")
             ELSE [host |-> SubSeq(hostport, 2, i - 2),
                   port |-> SubSeq(hostport, i + 1, Len(hostport)),
                   err  |-> ErrNone]
        ELSE IF Cardinality(colons) > 1 THEN fail("too many colons in address")
        ELSE IF Indexes(hostport, 91) # {} \/ close # {}
             THEN fail("unexpected bracket in address")
        ELSE [host |-> SubSeq(hostport, 1, i - 1),
              port |-> SubSeq(hostport, i + 1, Len(hostport)),
              err  |-> ErrNone]

\* the value of a string of decimal digits
RECURSIVE digitsValue(_)
digitsValue(s) ==
    IF s = <<>> THEN 0 ELSE 10 * digitsValue(SubSeq(s, 1, Len(s) - 1)) + (s[Len(s)] - 48)

\* strconv.Atoi on the port dialSOCKS5 hands it, which is what %d wrote or
\* what SplitHostPort found behind the last colon: digits or not a number
Atoi(s) ==
    IF s # <<>> /\ \A i \in 1..Len(s) : s[i] \in 48..57
    THEN [n |-> digitsValue(s), err |-> ErrNone]
    ELSE [n |-> 0, err |-> "invalid syntax"]

\* the fields of s between the bytes c
RECURSIVE Fields(_, _)
Fields(s, c) ==
    IF Indexes(s, c) = {} THEN <<s>>
    ELSE LET i == Last(Indexes(s, c))
         IN  Append(Fields(SubSeq(s, 1, i - 1), c), SubSeq(s, i + 1, Len(s)))

\* the IPv6 addresses of this model, as groups: ::, ::1, 2001:db8::1,
\* 1:0:0:4::8, 1:2:3:4:5:6:7:8, 1:0:3:4:5:6:7:8 and ::ffff:1.2.3.4
SampleGroups ==
    { <<0, 0, 0, 0, 0, 0, 0, 0>>,
      <<0, 0, 0, 0, 0, 0, 0, 1>>,
      <<8193, 3512, 0, 0, 0, 0, 0, 1>>,
      <<1, 0, 0, 4, 0, 0, 0, 8>>,
      <<1, 2, 3, 4, 5, 6, 7, 8>>,
      <<1, 0, 3, 4, 5, 6, 7, 8>>,
      <<0, 0, 0, 0, 0, 65535, 258, 772>> }

\* the 16 bytes of an address given as groups
Bytes16(g) == [i \in 1..16 |-> IF i % 2 = 1 THEN g[(i + 1) \div 2] \div 256
                                            ELSE g[i \div 2] % 256]

\* net.ParseIP: a dotted quad gives its four bytes (decimal fields up to 255
\* without leading zeros), the text of one of the IPv6 addresses of this
\* model gives its 16 bytes, anything else gives nil (the empty sequence)
ParseIP(host) ==
    LET f == Fields(host, 46)
        field(x) == /\ Len(x) \in 1..3
                    /\ Atoi(x).err = ErrNone
                    /\ Atoi(x).n <= 255
                    /\ Len(x) > 1 => x[1] # 48
    IN  IF Indexes(host, 58) # {}
        THEN IF \E g \in SampleGroups : To4(Bytes16(g)) = <<>> /\ IPString(Bytes16(g)) = host
             THEN Bytes16(CHOOSE g \in SampleGroups :
                              To4(Bytes16(g)) = <<>> /\ IPString(Bytes16(g)) = host)
             ELSE <<>>
        ELSE IF Len(f) = 4 /\ \A k \in 1..4 : field(f[k])
             THEN [k \in 1..4 |-> Atoi(f[k]).n]
             ELSE <<>>

\* dialSOCKS5: the CONNECT request it writes for target, or the error it
\* returns before writing one
socks5Request(tgt) ==
    LET hp == SplitHostPort(tgt)
        port == Atoi(hp.port)
        ip == ParseIP(hp.host)
        fail(e) == [req |-> <<>>, err |-> e]
    IN  IF hp.err # ErrNone THEN fail(hp.err)
        ELSE IF port.err # ErrNone \/ port.n < 1 \/ port.n > 65535 THEN fail("invalid port")
        ELSE IF Len(hp.host) > 255 THEN fail("hostname too long")
        ELSE [req |-> <<5, cmdConnect, 0>>
                        \o (IF ip # <<>>
                            THEN IF To4(ip) # <<>>
                                 THEN <<addrIPv4>> \o To4(ip)
                                 ELSE <<addrIPv6>> \o ip
                            ELSE <<addrDomain, Len(hp.host) % 256>> \o hp.host)
                        \o <<(port.n \div 256) % 256, port.n % 256>>,
              err |-> ErrNone]

\* the bytes of the addresses and the ports of the requests of this model
SampleBytes == {0, 1, 10, 255}
SamplePorts == {0, 1, 80, 256, 443, 65535}
\* the names: "a", "a.b", "1.2.3.4", "1.2.3" and the empty name
SampleNames == { <<97>>, <<97, 46, 98>>, <<49, 46, 50, 46, 51, 46, 52>>,
                 <<49, 46, 50, 46, 51>>, <<>> }

\* the requests a client sends in this model: CONNECT with each address
\* type, and requests readRequest rejects
SampleRequests ==
    LET portBytes(n) == <<n \div 256, n % 256>>
    IN  { <<socks5Version, cmdConnect, 0, addrIPv4>> \o a \o portBytes(n) :
              a \in [1..4 -> SampleBytes], n \in SamplePorts }
        \cup { <<socks5Version, cmdConnect, 0, addrIPv6>> \o Bytes16(g) \o portBytes(n) :
              g \in SampleGroups, n \in SamplePorts }
        \cup { <<socks5Version, cmdConnect, 0, addrDomain, Len(d)>> \o d \o portBytes(n) :
              d \in SampleNames, n \in SamplePorts }
        \cup { <<4, cmdConnect, 0, addrIPv4, 10, 0, 0, 1, 0, 80>>,
               <<socks5Version, 2, 0, addrIPv4, 10, 0, 0, 1, 0, 80>>,
               <<socks5Version, cmdConnect, 0, 5, 10, 0, 0, 1, 0, 80>>,
               <<socks5Version, cmdConnect, 0, addrIPv4, 10, 0>> }

InitCodec ==
    /\ InitRotator(RotationSequential, FALSE, 1)
    /\ NoServer
    /\ NoLoad
    /\ wire \in SampleRequests
    /\ target = [target |-> <<>>, err |-> ErrNone]
    /\ encoded = [req |-> <<>>, err |-> ErrNone]
    /\ reparsed = [target |-> <<>>, err |-> ErrNone]
    /\ codecPc = "parse"
    /\ NoConnect
    /\ NoRelay
    /\ NoDial

notCodecVars == <<rotVars, srvVars, loadVars, httpVars, relaying, dialing>>

\* the server reads the client's request
ParseTarget ==
    /\ codecPc = "parse"
    /\ target' = readRequest(wire)
    /\ codecPc' = IF target'.err = ErrNone THEN "encode" ELSE "done"
    /\ UNCHANGED <<wire, encoded, reparsed, notCodecVars>>

\* dialSOCKS5 writes the request for the target, or fails
EncodeTarget ==
    /\ codecPc = "encode"
    /\ encoded' = socks5Request(target.target)
    /\ codecPc' = IF encoded'.err = ErrNone THEN "reparse" ELSE "done"
    /\ UNCHANGED <<wire, target, reparsed, notCodecVars>>

\* a server's readRequest reads the request dialSOCKS5 wrote
ReparseTarget ==
    /\ codecPc = "reparse"
    /\ reparsed' = readRequest(encoded.req)
    /\ codecPc' = "done"
    /\ UNCHANGED <<wire, target, encoded, notCodecVars>>

NextCodec ==
    \/ ParseTarget
    \/ EncodeTarget
    \/ ReparseTarget

SpecCodec == InitCodec /\ [][NextCodec]_vars

(***************************************************************************)
(* SpecConnect: doHTTPConnect reads the upstream's CONNECT response and    *)
(* the relay reads from the connection it returns                          *)
(***************************************************************************)
\* the responses of an upstream: the status, the Content-Length header
\* (-1: none) and the bytes sent behind the header
Responses ==
    [status : {200, 204, 407, 502},
     length : {-1, 0, 1, 2},
     data   : { [i \in 1..n |-> i] : n \in 0..MaxData }]

\* http.ReadResponse(br, nil): the body of a response to a request taken as
\* GET.  Status 204 has none; a Content-Length gives that many bytes; a
\* response without one has everything up to EOF as its body.
ReadResponseBody(r) ==
    IF r.status = 204 THEN NoBody
    ELSE IF r.length >= 0
         THEN IF r.length = 0 THEN NoBody ELSE [kind |-> "length", left |-> r.length]
    ELSE [kind |-> "close", left |-> -1]

InitConnect ==
    /\ InitRotator(RotationSequential, FALSE, 1)
    /\ NoServer
    /\ NoLoad
    /\ NoCodec
    /\ NoRelay
    /\ NoDial
    /\ resp \in Responses
    /\ up = [hdr |-> FALSE, sent |-> 0, closed |-> FALSE]
    /\ sock = <<>>
    /\ brBuf = <<>>
    /\ body = NoBody
    /\ delivered = <<>>
    /\ httpPc = "header"

notHttpVars == <<rotVars, srvVars, loadVars, codecVars, relaying, dialing>>

\* the upstream sends the header of its response
UpstreamHeader ==
    /\ ~up.hdr
    /\ ~up.closed
    /\ up' = [up EXCEPT !.hdr = TRUE]
    /\ UNCHANGED <<resp, sock, brBuf, body, delivered, httpPc, notHttpVars>>

\* the upstream sends the next byte behind the header
UpstreamSend ==
    /\ up.hdr
    /\ ~up.closed
    /\ up.sent < Len(resp.data)
    /\ up' = [up EXCEPT !.sent = @ + 1]
    /\ sock' = Append(sock, resp.data[up.sent + 1])
    /\ UNCHANGED <<resp, brBuf, body, delivered, httpPc, notHttpVars>>

\* the upstream closes the connection
UpstreamClose ==
    /\ ~up.closed
    /\ up' = [up EXCEPT !.closed = TRUE]
    /\ UNCHANGED <<resp, sock, brBuf, body, delivered, httpPc, notHttpVars>>

Min(a, b) == IF a < b THEN a ELSE b

\* doHTTPConnect: http.ReadResponse(br, nil).  The read that brings the end
\* of the header into br brings the bytes behind it that have arrived, as
\* far as br has room.  EOF before the header is an error.
ReadResponse ==
    /\ httpPc = "header"
    /\ IF up.hdr
       THEN LET k == Min(Len(sock), BufSize)
            IN  /\ brBuf' = SubSeq(sock, 1, k)
                /\ sock' = SubSeq(sock, k + 1, Len(sock))
                /\ body' = ReadResponseBody(resp)
                /\ httpPc' = "body"
       ELSE /\ up.closed
            /\ httpPc' = "failed"
            /\ UNCHANGED <<sock, brBuf, body>>
    /\ UNCHANGED <<resp, up, delivered, notHttpVars>>

\* doHTTPConnect: io.Copy(io.Discard, resp.Body), one Read of the body: from
\* br while it holds bytes, from the connection otherwise; the copy ends at
\* the end of the body or at EOF
DiscardBody ==
    /\ httpPc = "body"
    /\ LET want(n) == IF body.kind = "length" THEN Min(body.left, n) ELSE n
           took(n) == IF body.kind = "length"
                      THEN [body EXCEPT !.left = @ - n]
                      ELSE body
       IN  IF body.kind = "none" \/ (body.kind = "length" /\ body.left = 0)
           THEN /\ httpPc' = "status"
                /\ UNCHANGED <<sock, brBuf, body>>
           ELSE IF brBuf # <<>>
           THEN /\ brBuf' = SubSeq(brBuf, want(Len(brBuf)) + 1, Len(brBuf))
                /\ body' = took(want(Len(brBuf)))
                /\ UNCHANGED <<sock, httpPc>>
           ELSE IF sock # <<>>
           THEN /\ sock' = SubSeq(sock, want(Len(sock)) + 1, Len(sock))
                /\ body' = took(want(Len(sock)))
                /\ UNCHANGED <<brBuf, httpPc>>
           ELSE /\ up.closed
                /\ httpPc' = "status"
                /\ UNCHANGED <<sock, brBuf, body>>
    /\ UNCHANGED <<resp, up, delivered, notHttpVars>>

\* the deadline of doHTTPConnect (d.timeout) passes during a read: the
\* read of the header fails, the copy of the body ends
Deadline ==
    /\ httpPc \in {"header", "body"}
    /\ httpPc' = IF httpPc = "header" THEN "failed" ELSE "status"
    /\ UNCHANGED <<resp, up, sock, brBuf, body, delivered, notHttpVars>>

\* doHTTPConnect: the status check and the return
CheckStatus ==
    /\ httpPc = "status"
    /\ httpPc' = IF resp.status # 200 THEN "failed" ELSE "relay"
    /\ UNCHANGED <<resp, up, sock, brBuf, body, delivered, notHttpVars>>

\* bufferedConn.Read as relay calls it: c.r.Read(p) with p larger than br
\* hands out what br holds, and reads the connection when br is empty
BufferedConnRead ==
    /\ httpPc = "relay"
    /\ IF brBuf # <<>>
       THEN /\ delivered' = delivered \o brBuf
            /\ brBuf' = <<>>
            /\ UNCHANGED sock
       ELSE /\ sock # <<>>
            /\ delivered' = delivered \o sock
            /\ sock' = <<>>
            /\ UNCHANGED brBuf
    /\ UNCHANGED <<resp, up, body, httpPc, notHttpVars>>

NextConnect ==
    \/ UpstreamHeader
    \/ UpstreamSend
    \/ UpstreamClose
    \/ ReadResponse
    \/ DiscardBody
    \/ Deadline
    \/ CheckStatus
    \/ BufferedConnRead

SpecConnect == InitConnect /\ [][NextConnect]_vars

(***************************************************************************)
(* SpecRelay: relay copies in both directions between the client's         *)
(* connection and the connection Dial returned for an endpoint of each     *)
(* type.                                                                   *)
(***************************************************************************)
\* the dynamic type of a connection of relay: Accept gives a *net.TCPConn,
\* dialSOCKS4 and dialSOCKS5 return the connection of net.DialTimeout, and
\* doHTTPConnect wraps the connection of dialHTTP and dialHTTPS
ConnType(kind, d) ==
    IF d = "target" /\ kind \in {"HTTP", "HTTPS"} THEN "bufferedConn" ELSE "TCPConn"

\* relay's type assertion to interface{ CloseWrite() error }: bufferedConn
\* embeds the interface net.Conn, whose method set has no CloseWrite
HasCloseWrite(t) == t # "bufferedConn"

InitRelay ==
    /\ InitRotator(RotationSequential, FALSE, 1)
    /\ NoServer
    /\ NoLoad
    /\ NoCodec
    /\ NoConnect
    /\ NoDial
    /\ \E kind \in Range(ProxyTypes) :
        relaying = [pc |-> "relay", kind |-> kind,
                    peerEOF |-> [d \in Sides |-> FALSE],
                    copy |-> [d \in Sides |-> "running"],
                    moved |-> [d \in Sides |-> 0],
                    shut |-> [d \in Sides |-> FALSE]]

notRelayVars == <<rotVars, srvVars, loadVars, codecVars, httpVars, dialing>>

\* io.CopyBuffer reading from d moves a chunk to the other side
CopyMoves(d) ==
    /\ relaying.copy[d] = "running"
    /\ ~relaying.peerEOF[d]
    /\ relaying.moved[d] < MaxData
    /\ relaying' = [relaying EXCEPT !.moved[d] = @ + 1]
    /\ UNCHANGED notRelayVars

\* the peer of connection d closes its write direction: reads from d end
\* with EOF
PeerCloseWrite(d) ==
    /\ relaying.pc = "relay"
    /\ ~relaying.peerEOF[d]
    /\ relaying' = [relaying EXCEPT !.peerEOF[d] = TRUE]
    /\ UNCHANGED notRelayVars

\* one goroutine of relay: io.CopyBuffer reading from d returns, on EOF or
\* on an error of a read or a write, then CloseWrite on the other side if
\* that connection has the method, then wg.Done()
CopyReturns(d) ==
    /\ relaying.copy[d] = "running"
    /\ \E how \in {"eof", "error"} :
        /\ how = "eof" => relaying.peerEOF[d]
        /\ relaying' = [relaying EXCEPT
                          !.copy[d] = how,
                          !.shut[Other(d)] =
                              @ \/ HasCloseWrite(ConnType(relaying.kind, Other(d)))]
    /\ UNCHANGED notRelayVars

\* relay: wg.Wait() returns
WaitReturns ==
    /\ relaying.pc = "relay"
    /\ \A d \in Sides : relaying.copy[d] # "running"
    /\ relaying' = [relaying EXCEPT !.pc = "returned"]
    /\ UNCHANGED notRelayVars

NextRelay ==
    \/ \E d \in Sides : CopyMoves(d)
    \/ \E d \in Sides : PeerCloseWrite(d)
    \/ \E d \in Sides : CopyReturns(d)
    \/ WaitReturns

SpecRelay == InitRelay /\ [][NextRelay]_vars

(***************************************************************************)
(* SpecDial: one round of connectToTarget's loop with a SOCKS5 endpoint:   *)
(* dialSOCKS5 talks to the upstream, and connectToTarget marks the         *)
(* endpoint dead when Dial returns an error.  Strings are sequences of     *)
(* byte values.                                                            *)
(***************************************************************************)
\* NewProxy for socks5://a:1080 and socks5://user:pw@a:1080
Socks5Proxy(withUser) ==
    [id |-> 1, Type |-> "SOCKS5", Host |-> "a", Port |-> "1080",
     Username |-> IF withUser THEN <<117, 115, 101, 114>> ELSE <<>>,
     Password |-> IF withUser THEN <<112, 119>> ELSE <<>>]

\* the targets readRequest hands to connectToTarget for the requests of
\* SampleRequests (of the IPv4 ones, those to 10.0.0.x)
DialTargets ==
    { readRequest(b).target :
        b \in { x \in SampleRequests :
                  /\ readRequest(x).err = ErrNone
                  /\ x[4] = addrIPv4 => <<x[5], x[6], x[7]>> = <<10, 0, 0>> } }

\* dialSOCKS5: the method negotiation message for endpoint p
socks5Methods(p) == IF p.Username # <<>> THEN <<5, 2, 0, 2>> ELSE <<5, 1, 0>>

\* socks5Auth: the username/password message
socks5AuthMsg(user, pass) == <<1, Len(user) % 256>> \o user \o <<Len(pass) % 256>> \o pass

\* what the upstream answers where dialSOCKS5 and socks5Auth read from it;
\* <<>>: the read fails
UpstreamAnswers(pc) ==
    CASE pc = "method" -> { <<>>, <<5, 0>>, <<5, 2>>, <<5, 255>>, <<4, 0>> }
      [] pc = "authReply" -> { <<>>, <<1, 0>>, <<1, 1>> }
      [] pc = "reply" -> { <<>>, <<5, 0, 0, 1>>, <<5, 5, 0, 1>>, <<4, 0, 0, 1>>, <<5, 0, 0, 9>> }

InitDial ==
    /\ InitRotator(RotationSequential, FALSE, 1)
    /\ NoServer
    /\ NoLoad
    /\ NoCodec
    /\ NoConnect
    /\ NoRelay
    /\ \E withUser \in BOOLEAN, tgt \in DialTargets :
        LET p == Socks5Proxy(withUser)
        IN  dialing = [pc |-> "dial", p |-> p, alive |-> [q \in {p} |-> TRUE], target |-> tgt,
                       sent |-> <<>>, selected |-> -1, err |-> ErrNone]

notDialVars == <<rotVars, srvVars, loadVars, codecVars, httpVars, relaying>>

\* Dial has returned e
DialReturns(e) == [dialing EXCEPT !.pc = "returned", !.err = e]

\* dialSOCKS5: net.DialTimeout, then the method negotiation is written
DialConnect ==
    /\ dialing.pc = "dial"
    /\ \E ok \in BOOLEAN :
        dialing' = IF ok
                   THEN [dialing EXCEPT !.pc = "method",
                                        !.sent = Append(@, [msg |-> "methods",
                                                            bytes |-> socks5Methods(dialing.p)])]
                   ELSE DialReturns(ErrDial)
    /\ UNCHANGED notDialVars

\* dialSOCKS5: the method the upstream selected is read; socks5Auth writes
\* its message when it is 0x02
ReadMethod ==
    /\ dialing.pc = "method"
    /\ \E resp2 \in UpstreamAnswers("method") :
        dialing' =
            IF resp2 = <<>> THEN DialReturns(ErrRead)
            ELSE IF resp2[1] # 5 THEN DialReturns("bad SOCKS5 version")
            ELSE IF resp2[2] = 2
                 THEN IF Len(dialing.p.Username) > 255 \/ Len(dialing.p.Password) > 255
                      THEN [DialReturns("username or password too long")
                                EXCEPT !.selected = resp2[2]]
                      ELSE [dialing EXCEPT
                              !.pc = "authReply",
                              !.selected = resp2[2],
                              !.sent = Append(@, [msg |-> "auth",
                                                  bytes |-> socks5AuthMsg(dialing.p.Username,
                                                                          dialing.p.Password)])]
            ELSE IF resp2[2] # 0
                 THEN [DialReturns("auth not supported") EXCEPT !.selected = resp2[2]]
            ELSE [dialing EXCEPT !.pc = "request", !.selected = resp2[2]]
    /\ UNCHANGED notDialVars

\* socks5Auth: the upstream's answer to the credentials is read
ReadAuthReply ==
    /\ dialing.pc = "authReply"
    /\ \E resp2 \in UpstreamAnswers("authReply") :
        dialing' = IF resp2 = <<>> THEN DialReturns(ErrRead)
                   ELSE IF resp2[2] # 0 THEN DialReturns("auth failed")
                   ELSE [dialing EXCEPT !.pc = "request"]
    /\ UNCHANGED notDialVars

\* dialSOCKS5: the target is split and checked, and the CONNECT request is
\* written
WriteRequest ==
    /\ dialing.pc = "request"
    /\ LET e == socks5Request(dialing.target)
       IN  dialing' = IF e.err # ErrNone THEN DialReturns(e.err)
                      ELSE [dialing EXCEPT !.pc = "reply",
                                           !.sent = Append(@, [msg |-> "request",
                                                               bytes |-> e.req])]
    /\ UNCHANGED notDialVars

\* dialSOCKS5: the upstream's reply is read, and consumeBoundAddr
ReadReply ==
    /\ dialing.pc = "reply"
    /\ \E hdr \in UpstreamAnswers("reply") :
        dialing' = IF hdr = <<>> THEN DialReturns(ErrRead)
                   ELSE IF hdr[1] # 5 THEN DialReturns("bad SOCKS5 response")
                   ELSE IF hdr[2] # 0 THEN DialReturns("SOCKS5 failed")
                   ELSE IF hdr[4] \notin {addrIPv4, addrDomain, addrIPv6}
                        THEN DialReturns("unknown atyp")
                   ELSE DialReturns(ErrNone)
    /\ UNCHANGED notDialVars

\* connectToTarget: Dial has returned; on an error rotator.MarkDead(p)
AfterDial ==
    /\ dialing.pc = "returned"
    /\ dialing' = IF dialing.err = ErrNone
                  THEN [dialing EXCEPT !.pc = "connected"]
                  ELSE [dialing EXCEPT !.pc = "marked",
                                       !.alive = ProxyMarkDead(@, dialing.p)]
    /\ UNCHANGED notDialVars

NextDial ==
    \/ DialConnect
    \/ ReadMethod
    \/ ReadAuthReply
    \/ WriteRequest
    \/ ReadReply
    \/ AfterDial

SpecDial == InitDial /\ [][NextDial]_vars

(***************************************************************************)
(* Properties of the Rotator, checked under Spec                           *)
(***************************************************************************)
\* the endpoints of the Rotator that are alive
AliveSet == { p \in Range(rot.proxies) : alive[p] }

\* the pool Next selects from
Pool == IF rot.skipDead THEN SelectSeq(rot.proxies, LAMBDA p : alive[p]) ELSE rot.proxies

\* the last n elements of s
LastN(s, n) == SubSeq(s, Len(s) - n + 1, Len(s))

Occurrences(s, x) == Cardinality({ i \in 1..Len(s) : s[i] = x })

\* C1: every endpoint Next returns was added to the Rotator, and under
\* skip_dead it is alive when Next returns.
C1_NextReturnsPoolMember ==
    (lastOp = "Next" /\ lastRes.err = ErrNone) =>
        /\ lastRes.proxy \in Range(rot.proxies)
        /\ rot.skipDead => alive[lastRes.proxy]

C1_Witness ==
    /\ lastOp = "Next"
    /\ lastRes.err = ErrNone
    /\ rot.skipDead
    /\ rot.strategy = RotationRandom
    /\ \E p \in Range(rot.proxies) : ~alive[p]
    /\ nextCalls >= 3

\* C2: Sequential, keep-dead, one request per proxy, every Next called after
\* the last insertion: call i (from 0) returns the endpoint at insertion
\* position i mod N, and after kN calls every endpoint was returned k times.
C2_SequentialRoundRobin ==
    LET N == Len(rot.proxies)
    IN  ( /\ rot.strategy = RotationSequential
          /\ ~rot.skipDead
          /\ rot.requestsPer = 1
          /\ N >= 1
          /\ nextCalls = Len(hist) ) =>
            /\ \A i \in 1..Len(hist) : hist[i] = rot.proxies[((i - 1) % N) + 1]
            /\ Len(hist) % N = 0 =>
                 \A p \in Range(rot.proxies) : Occurrences(hist, p) = Len(hist) \div N

C2_Witness ==
    /\ rot.strategy = RotationSequential
    /\ ~rot.skipDead
    /\ rot.requestsPer = 1
    /\ Len(rot.proxies) >= 2
    /\ nextCalls = Len(hist)
    /\ Len(hist) = 2 * Len(rot.proxies)

\* C3 as stated: Random, skip_dead, one request per proxy, N alive
\* endpoints: any N consecutive Next calls without MarkDead or AddProxy
\* return every alive endpoint exactly once.
C3_EveryWindowOnce ==
    LET N == Cardinality(AliveSet)
    IN  ( /\ rot.strategy = RotationRandom
          /\ rot.skipDead
          /\ rot.requestsPer = 1
          /\ N >= 1
          /\ quiet >= N ) =>
            Range(LastN(hist, N)) = AliveSet

\* C3 amended: the same for the windows of N calls that begin with a
\* reshuffle, that is, the windows after which the cursor stands at N.
C3_AlignedWindowOnce ==
    LET N == Cardinality(AliveSet)
    IN  ( /\ rot.strategy = RotationRandom
          /\ rot.skipDead
          /\ rot.requestsPer = 1
          /\ N >= 1
          /\ quiet >= N
          /\ rot.shuffled # <<>>
          /\ rot.shuffleIdx = N ) =>
            Range(LastN(hist, N)) = AliveSet

C3_Witness ==
    /\ rot.strategy = RotationRandom
    /\ rot.skipDead
    /\ rot.requestsPer = 1
    /\ Cardinality(AliveSet) >= 2
    /\ quiet >= 2 * Cardinality(AliveSet)
    /\ rot.shuffled # <<>>
    /\ rot.shuffleIdx = Cardinality(AliveSet)

\* C4: Random, one request per proxy: the k Next calls made since the last
\* reshuffle, with no AddProxy or MarkDead among them, returned k pairwise
\* distinct endpoints, and once k = len(pool) they are the whole pool.
C4_FreshShuffleCycle ==
    LET k == rot.shuffleIdx
        w == LastN(hist, k)
    IN  ( /\ rot.strategy = RotationRandom
          /\ rot.requestsPer = 1
          /\ rot.shuffled # <<>>
          /\ k >= 1
          /\ quiet >= k ) =>
            /\ \A i, j \in 1..k : i # j => w[i] # w[j]
            /\ k = Len(Pool) => Range(w) = Range(Pool)

C4_Witness ==
    /\ rot.strategy = RotationRandom
    /\ rot.requestsPer = 1
    /\ ~rot.skipDead
    /\ Len(rot.proxies) >= 2
    /\ rot.shuffleIdx = Len(rot.proxies)
    /\ quiet = rot.shuffleIdx
    /\ nextCalls > quiet
    /\ rot.shuffled # <<>>

C6_MarkDeadIgnoredKeepDead ==
    ~rot.skipDead =>
        /\ rot = twin
        /\ lastRes = twinRes
        /\ lastRes.err # ErrAllProxiesDead

C6_Witness ==
    /\ ~rot.skipDead
    /\ lastOp = "Next"
    /\ lastRes.err = ErrNone
    /\ ~alive[lastRes.proxy]
    /\ \A p \in Range(rot.proxies) : ~alive[p]
    /\ nextCalls >= 3

\* the endpoints of log whose fingerprint no earlier endpoint of log has
RECURSIVE FirstOfEachFingerprint(_, _)
FirstOfEachFingerprint(log, n) ==
    IF n = 0
    THEN <<>>
    ELSE LET prev == FirstOfEachFingerprint(log, n - 1)
         IN  IF \E j \in 1..(n - 1) : String(log[j]) = String(log[n])
             THEN prev
             ELSE Append(prev, log[n])

\* C7: the Rotator holds, in insertion order, the first endpoint of every
\* fingerprint passed to AddProxy, so its fingerprints are pairwise distinct.
C7_DedupByFingerprint ==
    /\ rot.proxies = FirstOfEachFingerprint(addLog, Len(addLog))
    /\ \A i, j \in 1..Len(rot.proxies) :
         i # j => String(rot.proxies[i]) # String(rot.proxies[j])

C7_Witness ==
    /\ Len(rot.proxies) >= 2
    /\ Len(addLog) > Len(rot.proxies)
    /\ \E i, j \in 1..Len(addLog) :
         i < j /\ addLog[i] # addLog[j] /\ String(addLog[i]) = String(addLog[j])

(***************************************************************************)
(* Properties of the server, checked under SpecServer and FairSpecServer   *)
(***************************************************************************)
RECURSIVE SumOver(_, _)
SumOver(f, n) == IF n = 0 THEN 0 ELSE f[n] + SumOver(f, n - 1)

\* the worker of connection c has returned
Finished(c) == At(c, "closed")

\* connection c was accepted by Serve
Accepted(c) == ~At(c, "idle")

\* C8: total_requests >= success_requests + failed_requests in every state,
\* the counters are the sums of what the workers added, and no worker adds
\* more than one to success_requests and failed_requests together, and that
\* only after its one increment of total_requests.
C8_StatsOrdered ==
    /\ stats.TotalRequests >= stats.SuccessRequests + stats.FailedRequests
    /\ stats.TotalRequests = SumOver([c \in Conns |-> counted[c].total], MaxConns)
    /\ stats.SuccessRequests = SumOver([c \in Conns |-> counted[c].success], MaxConns)
    /\ stats.FailedRequests = SumOver([c \in Conns |-> counted[c].failed], MaxConns)
    /\ \A c \in Conns :
         /\ counted[c].total <= 1
         /\ counted[c].success + counted[c].failed <= counted[c].total

C8_Witness ==
    /\ justDoIt
    /\ stats.TotalRequests = 2
    /\ stats.SuccessRequests = 1
    /\ stats.FailedRequests = 1
    /\ \A c \in Conns : Finished(c)

\* C9: when every worker that incremented total_requests has finished,
\* total_requests = success_requests + failed_requests.
C9_StatsBalancedAtRest ==
    (\A c \in Conns : counted[c].total > 0 => Finished(c)) =>
        stats.TotalRequests = stats.SuccessRequests + stats.FailedRequests

\* C10 as stated: every accepted connection is eventually closed, in
\* bounded-retry mode and in persistent mode.
C10_AlwaysClosed ==
    \A c \in Conns : Accepted(c) ~> Finished(c)

\* C10 amended: every accepted connection is eventually closed in
\* bounded-retry mode, and in persistent mode when the Rotator skips dead
\* endpoints or the shutdown signal is set.
C10_ClosedUnlessRetryingForever ==
    \A c \in Conns :
        (Accepted(c) /\ (~justDoIt \/ rot.skipDead \/ cancelled)) ~> Finished(c)

C10_Witness ==
    /\ justDoIt
    /\ ~rot.skipDead
    /\ cancelled
    /\ \E c \in Conns :
         /\ Finished(c)
         /\ counted[c].total = 1
         /\ counted[c].success = 0
         /\ \A p \in Range(rot.proxies) : ~alive[p]

\* C23: Sequential, keep-dead, K >= 1 requests per proxy, every Next called
\* after the last insertion: call i (from 0) returns the endpoint at
\* insertion position floor(i / K) mod N.
C23_StickyForKCalls ==
    LET N == Len(rot.proxies)
        K == rot.requestsPer
    IN  ( /\ rot.strategy = RotationSequential
          /\ ~rot.skipDead
          /\ K >= 1
          /\ N >= 1
          /\ nextCalls = Len(hist) ) =>
            \A i \in 0..(Len(hist) - 1) : hist[i + 1] = rot.proxies[((i \div K) % N) + 1]

C23_Witness ==
    /\ rot.strategy = RotationSequential
    /\ ~rot.skipDead
    /\ rot.requestsPer = 2
    /\ Len(rot.proxies) = 2
    /\ nextCalls = Len(hist)
    /\ Len(hist) = 5

\* a step of Next in auto mode with a current endpoint
AutoNext ==
    /\ nextCalls' # nextCalls
    /\ rot.requestsPer = -1
    /\ rot.current # Nil

\* C24 as stated: in auto mode, with skip_dead set or not, Next returns the
\* current endpoint while it is alive, and a different endpoint once the
\* current one is dead and the pool holds another endpoint.
C24_AutoLeavesDeadEndpoint ==
    [][AutoNext =>
         IF alive[rot.current]
         THEN lastRes'.proxy = rot.current /\ lastRes'.err = ErrNone
         ELSE (\E q \in Range(Pool) : q # rot.current) =>
                  lastRes'.proxy # rot.current /\ lastRes'.err = ErrNone]_vars

\* C24 in the two modes apart: with skip_dead set Next leaves a dead current
\* endpoint for an alive one; with skip_dead not set Next returns the current
\* endpoint whether it is alive or dead.
C24_AutoLeavesDeadEndpointWhenSkipping ==
    [][AutoNext =>
         IF alive[rot.current] \/ ~rot.skipDead
         THEN lastRes'.proxy = rot.current /\ lastRes'.err = ErrNone
         ELSE (\E q \in Range(Pool) : q # rot.current) =>
                  /\ lastRes'.proxy # rot.current
                  /\ lastRes'.err = ErrNone
                  /\ alive[lastRes'.proxy]]_vars

C24_Witness ==
    /\ rot.requestsPer = -1
    /\ rot.skipDead
    /\ lastOp = "Next"
    /\ Len(hist) = 3
    /\ hist[1] = hist[2]
    /\ hist[3] # hist[1]
    /\ ~alive[hist[1]]
    /\ lastRes.err = ErrNone

\* a step of MarkDead
MarkDeadStep ==
    /\ lastOp' \in {"MarkDead", "MarkDeadAgain"}
    /\ quiet' = 0
    /\ nextCalls' = nextCalls
    /\ addLog' = addLog

\* C28: AliveCount is the number of endpoints of the Rotator whose alive flag
\* is set and lies in 0..Count; MarkDead lowers it by one when the endpoint
\* was alive and leaves it alone otherwise; Next leaves it alone.
C28_AliveCountTracksFlags ==
    /\ [](/\ AliveCount(rot, alive) = Cardinality(AliveSet)
          /\ AliveCount(rot, alive) >= 0
          /\ AliveCount(rot, alive) <= Count(rot))
    /\ [][/\ nextCalls' # nextCalls => AliveCount(rot', alive') = AliveCount(rot, alive)
          /\ MarkDeadStep =>
               LET hit == { p \in Proxies : alive[p] # alive'[p] }
               IN  /\ Cardinality(hit) <= 1
                   /\ hit \subseteq Range(rot.proxies)
                   /\ AliveCount(rot', alive') = AliveCount(rot, alive) - Cardinality(hit)]_vars

C28_Witness ==
    /\ lastOp = "MarkDeadAgain"
    /\ Count(rot) = 2
    /\ AliveCount(rot, alive) = 1
    /\ nextCalls >= 1

IsPermutation(s, t) ==
    /\ Len(s) = Len(t)
    /\ \A x \in Range(s) \cup Range(t) : Occurrences(s, x) = Occurrences(t, x)

\* C29: whenever Next would use the cached permutation as it is, the
\* permutation is a permutation of the pool and the cursor is inside it;
\* the sequence index is never negative, so the index into the pool is in
\* range.
C29_PermutationInRange ==
    /\ rot.seqIndex >= 0
    /\ rot.shuffleIdx >= 0
    /\ (Len(Pool) > 0 /\ ~needReshuffle(rot, Pool)) =>
           /\ IsPermutation(rot.shuffled, Pool)
           /\ rot.shuffleIdx < Len(rot.shuffled)
    /\ (lastOp = "Next" /\ lastRes.err = ErrNone /\ rot.strategy = RotationRandom
            /\ rot.requestsPer = 1) =>
           /\ rot.shuffleIdx \in 1..Len(rot.shuffled)
           /\ lastRes.proxy = rot.shuffled[rot.shuffleIdx]

C29_Witness ==
    /\ rot.strategy = RotationRandom
    /\ rot.requestsPer = 1
    /\ lastOp = "Next"
    /\ Len(rot.shuffled) = 2
    /\ rot.shuffleIdx = 2
    /\ \E p \in Range(rot.proxies) : ~alive[p]

\* C30: a MarkDead call that follows a MarkDead call leaves the Rotator as
\* it is, and one on a dead endpoint leaves the alive flags as they are;
\* applying MarkDead twice gives what applying it once gives; in keep-dead
\* mode MarkDead changes nothing of the Rotator.
C30_MarkDeadIdempotent ==
    /\ [](/\ MarkDead(MarkDead(rot)) = MarkDead(rot)
          /\ \A p \in Proxies :
               ProxyMarkDead(ProxyMarkDead(alive, p), p) = ProxyMarkDead(alive, p))
    /\ [][MarkDeadStep =>
            /\ ~rot.skipDead => rot' = rot
            /\ lastOp \in {"MarkDead", "MarkDeadAgain"} => rot' = rot
            /\ lastOp' = "MarkDeadAgain" => alive' = alive
            /\ \A p \in Proxies : alive'[p] => alive[p]]_vars

C30_Witness ==
    /\ lastOp = "MarkDeadAgain"
    /\ nextCalls >= 2
    /\ rot.current # Nil
    /\ ~alive[rot.current]
    /\ \E p \in Range(rot.proxies) : alive[p]

(***************************************************************************)
(* The SOCKS5 exchange of one connection                                   *)
(***************************************************************************)
\* the request replies (05 REP 00 ATYP ...) written to the client of c
Replies(c) == SelectSeq(out[c], LAMBDA m : "rep" \in DOMAIN m)

\* a request reply with code rep is among the messages written to c
Replied(c, rep) == \E k \in 1..Len(Replies(c)) : Replies(c)[k].rep = rep

\* worker c takes a step
Steps(c) == conn'[c] # conn[c]

\* C11: on every connection the worker writes at most one request reply.
C11_AtMostOneReply ==
    \A c \in Conns : Len(Replies(c)) <= 1

\* C12: on every connection, Rotator.Next and the dials come after the
\* greeting was accepted and the request parsed, the success reply comes
\* after a successful dial, and bytes are relayed only after the success
\* reply was written.
C12_PhasesOrdered ==
    \A c \in Conns :
        /\ "request" \in phases[c] => "greeting" \in phases[c]
        /\ phases[c] \cap {"next", "dial"} # {} => {"greeting", "request"} \subseteq phases[c]
        /\ "dial" \in phases[c] => "next" \in phases[c]
        /\ Replied(c, replySuccess) => "dialOk" \in phases[c]
        /\ "success" \in phases[c] => Replied(c, replySuccess)
        /\ "relay" \in phases[c] => "success" \in phases[c]
        /\ conn[c].pc \in {"connect", "loop", "markDead", "next", "result"} =>
               /\ out[c] = <<methodReply(authNone)>>
               /\ counted[c].total = 1

C12_Witness ==
    \E c \in Conns :
        /\ phases[c] = {"greeting", "request", "next", "dial", "dialOk", "success", "relay"}
        /\ Finished(c)

\* C13 as stated: negotiate replies 05 00 and the worker goes on to read the
\* request exactly when the greeting has version 5 and offers method 0;
\* version 5 without method 0 is answered 05 FF and closed; another version
\* is closed without a write.
C13_AcceptedIffNoAuthOffered ==
    [][\A c \in Conns :
         (At(c, "greeting") /\ Steps(c) /\ conn[c].readErr = ErrNone) =>
             LET b == conn[c].buf
                 v5 == b[1] = 5
                 has0 == \E k \in 3..Len(b) : b[k] = 0
             IN  /\ (/\ out'[c] = Append(out[c], [ver |-> 5, method |-> 0])
                     /\ conn'[c].pc = "readRequest") <=> (v5 /\ has0)
                 /\ (v5 /\ ~has0) => /\ out'[c] = Append(out[c], [ver |-> 5, method |-> 255])
                                     /\ conn'[c].pc = "closing"
                 /\ ~v5 => /\ out'[c] = out[c]
                           /\ conn'[c].pc = "closing"]_vars

\* C13 amended: negotiate replies 05 00 exactly when the greeting has
\* version 5 and offers method 0, and the worker goes on to read the request
\* only then, and closes instead when the write of 05 00 fails; version 5
\* without method 0 is answered 05 FF and closed; another version, or a
\* greeting that could not be read, is closed without a write.
C13_RepliedIffNoAuthOffered ==
    [][\A c \in Conns :
         (At(c, "greeting") /\ Steps(c)) =>
             LET b == conn[c].buf
                 v5 == conn[c].readErr = ErrNone /\ b[1] = 5
                 has0 == \E k \in 3..Len(b) : b[k] = 0
             IN  /\ out'[c] = Append(out[c], [ver |-> 5, method |-> 0]) <=> (v5 /\ has0)
                 /\ conn'[c].pc = "readRequest" =>
                        (v5 /\ has0 /\ "greeting" \in phases'[c])
                 /\ (v5 /\ has0) => (conn'[c].pc = "closing" <=> "greeting" \notin phases'[c])
                 /\ (v5 /\ ~has0) => /\ out'[c] = Append(out[c], [ver |-> 5, method |-> 255])
                                     /\ conn'[c].pc = "closing"
                 /\ ~v5 => /\ out'[c] = out[c]
                           /\ conn'[c].pc = "closing"]_vars

C13_Witness ==
    /\ \E c \in Conns : out[c] = <<[ver |-> 5, method |-> 0]>> /\ At(c, "readRequest")
    /\ \E c \in Conns : out[c] = <<[ver |-> 5, method |-> 255]>> /\ Finished(c)

\* the message 05 REP 00 01 0.0.0.0:0 of a failure reply
FailureReply(rep) ==
    [ver |-> 5, rep |-> rep, rsv |-> 0, atyp |-> 1, bnd |-> "0.0.0.0:0", len |-> 10]

\* the step writes to c, first of all, the failure reply with code rep
Answers(c, rep) ==
    /\ Len(out'[c]) > Len(out[c])
    /\ out'[c][Len(out[c]) + 1] = FailureReply(rep)

\* C14: a version 5 request whose CMD is not 1 is answered with reply 07, a
\* CONNECT whose ATYP is not 1, 3 or 4 with reply 08; the worker then closes
\* the connection without a Rotator call, a dial or an increment of
\* total_requests.
C14_UnsupportedRequestRejected ==
    [][\A c \in Conns :
         (At(c, "request") /\ Steps(c) /\ conn[c].buf # <<>> /\ conn[c].buf[1] = 5) =>
             LET cmd == conn[c].buf[2]
                 atyp == conn[c].buf[4]
                 rejected == /\ conn'[c].pc = "closing"
                             /\ stats' = stats
                             /\ rot' = rot
                             /\ phases'[c] = {"greeting"}
             IN  /\ cmd # 1 => Answers(c, 7) /\ rejected
                 /\ (cmd = 1 /\ atyp \notin {1, 3, 4}) => Answers(c, 8) /\ rejected]_vars

C14_Witness ==
    /\ \E c \in Conns :
         /\ Finished(c)
         /\ Replies(c) = <<FailureReply(7), FailureReply(1)>>
         /\ counted[c].total = 0
    /\ \E c \in Conns :
         /\ Finished(c)
         /\ Replies(c) = <<FailureReply(8), FailureReply(1)>>
         /\ counted[c].total = 0

\* C15: in bounded-retry mode the worker answers a failed connectToTarget
\* with 05 04 00 01 0.0.0.0:0 and adds one to failed_requests only, and
\* answers a successful one with reply 00 and adds one to success_requests
\* only.
C15_BoundedRetryOutcome ==
    [][\A c \in Conns :
         (~justDoIt /\ At(c, "result") /\ Steps(c)) =>
             IF conn[c].err # ErrNone
             THEN /\ out'[c] = Append(out[c], FailureReply(4))
                  /\ stats'.FailedRequests = stats.FailedRequests + 1
                  /\ stats'.SuccessRequests = stats.SuccessRequests
                  /\ counted'[c].failed = 1 /\ counted'[c].success = 0
             ELSE /\ Len(out'[c]) = Len(out[c]) + 1
                  /\ out'[c][Len(out'[c])].rep = 0
                  /\ stats'.SuccessRequests = stats.SuccessRequests + 1
                  /\ stats'.FailedRequests = stats.FailedRequests
                  /\ counted'[c].success = 1 /\ counted'[c].failed = 0]_vars

C15_Witness ==
    /\ ~justDoIt
    /\ \E c \in Conns : Finished(c) /\ Replies(c) = <<FailureReply(4)>> /\ counted[c].failed = 1
    /\ \E c \in Conns : Finished(c) /\ Replied(c, 0) /\ counted[c].success = 1

Min2(a, b) == IF a < b THEN a ELSE b

Max2(a, b) == IF a > b THEN a ELSE b

\* R = min(max(Count, 3), 10)
RetryBudget == Min2(Max2(Count(rot), 3), 10)

\* C16: one invocation of connectToTarget makes at most R rounds of its
\* loop and so at most R dials, and when it fails after a dial it returns
\* the error of the last dial.
C16_AtMostBudgetDials ==
    /\ \A n \in 0..12 : maxRetriesFor(n) = Min2(Max2(n, 3), 10)
    /\ \A c \in Conns :
         /\ Len(conn[c].dialLog) <= RetryBudget
         /\ conn[c].i <= RetryBudget
         /\ Len(conn[c].dialLog) <= conn[c].i + 1
         /\ (At(c, "result") /\ conn[c].dialLog # <<>> /\ conn[c].err # ErrNone) =>
                /\ conn[c].err = ErrDial
                /\ conn[c].targetConn = "none"

C16_Witness ==
    \E c \in Conns :
        /\ At(c, "result")
        /\ conn[c].i = RetryBudget
        /\ Len(conn[c].dialLog) = NumKeys
        /\ conn[c].err = ErrDial

\* C17: within one invocation of connectToTarget no endpoint is dialed
\* twice, and tried holds exactly the endpoints dialed.
C17_NoEndpointDialedTwice ==
    \A c \in Conns :
        /\ \A j, k \in 1..Len(conn[c].dialLog) :
               j # k => conn[c].dialLog[j] # conn[c].dialLog[k]
        /\ conn[c].tried = Range(conn[c].dialLog)

\* Next returned a tried endpoint again and the round passed without a dial
C17_Witness ==
    \E c \in Conns :
        /\ At(c, "loop")
        /\ conn[c].i > Len(conn[c].dialLog)
        /\ conn[c].dialLog # <<>>

\* C18: in bounded-retry mode every endpoint whose dial failed is marked dead
\* before the next endpoint is fetched, and a success after k >= 1 failed
\* dials is answered with reply 00, adds one to success_requests and leaves
\* failed_requests alone.
C18_FailoverSucceeds ==
    [][\A c \in Conns :
         LET log == conn[c].dialLog
         IN  ~justDoIt =>
               /\ \A k \in 1..(Len(log) - 1) : ~alive[log[k]]
               /\ (conn[c].pc \in {"next", "loop"} \/ (At(c, "result") /\ conn[c].err # ErrNone)) =>
                      \A k \in 1..Len(log) : ~alive[log[k]]
               /\ (At(c, "result") /\ conn[c].err = ErrNone /\ Len(log) >= 2 /\ Steps(c)) =>
                      /\ Len(out'[c]) = Len(out[c]) + 1
                      /\ out'[c][Len(out'[c])].rep = 0
                      /\ \A k \in 1..(Len(log) - 1) : ~alive'[log[k]]
                      /\ stats'.SuccessRequests = stats.SuccessRequests + 1
                      /\ stats'.FailedRequests = stats.FailedRequests]_vars

\* the only accepted connection got its success reply after a failed dial
C18_Witness ==
    /\ ~justDoIt
    /\ At(1, "relay")
    /\ At(2, "idle")
    /\ Replied(1, 0)
    /\ \E p \in Range(rot.proxies) : ~alive[p]
    /\ stats.SuccessRequests = 1
    /\ stats.FailedRequests = 0

\* C19: when a request fails for good after at least one dial, the failures
\* counter of the endpoint dialed last goes up by one and no other failures
\* counter changes.
C19_LastEndpointFailureRecorded ==
    [][\A c \in Conns :
         (/\ At(c, "result") /\ Steps(c)
          /\ conn[c].err # ErrNone
          /\ conn[c].dialLog # <<>>
          /\ (~justDoIt \/ conn[c].err = ErrAllProxiesDead)) =>
             LET last == conn[c].dialLog[Len(conn[c].dialLog)]
             IN  failures' = [failures EXCEPT ![last] = @ + 1]]_vars

\* C20: in persistent mode a request is ended with reply 04 only after Next
\* reported AllDead, and then failed_requests goes up by one; with reply 01
\* only when the shutdown signal is set; any other failed round is followed
\* by another round; with skip_dead=false no request gets reply 04.
C20_PersistentEndsOnlyOnAllDead ==
    [][\A c \in Conns :
         justDoIt =>
           /\ Replied(c, 4) => rot.skipDead
           /\ (At(c, "result") /\ Steps(c) /\ conn[c].err # ErrNone) =>
                  IF conn[c].err = ErrAllProxiesDead
                  THEN /\ rot.skipDead /\ AliveCount(rot, alive) = 0
                       /\ out'[c] = Append(out[c], FailureReply(4))
                       /\ stats'.FailedRequests = stats.FailedRequests + 1
                       /\ conn'[c].pc = "closing"
                  ELSE /\ out'[c] = out[c]
                       /\ stats' = stats
                       /\ conn'[c].pc = "justDoIt"
           /\ (At(c, "justDoIt") /\ Steps(c)) =>
                  IF cancelled
                  THEN /\ out'[c] = Append(out[c], FailureReply(1))
                       /\ conn'[c].pc = "closing"
                  ELSE /\ out'[c] = out[c]
                       /\ conn'[c].pc = "connect"
           /\ (Len(Replies(c)) = 0 /\ Len(Replies(c)') = 1 /\ "request" \in phases[c]) =>
                  \/ Replies(c)'[1].rep = 0
                  \/ Replies(c)'[1].rep = 4 /\ conn[c].err = ErrAllProxiesDead
                  \/ Replies(c)'[1].rep = 1 /\ cancelled]_vars

C20_Witness ==
    /\ justDoIt
    /\ ~cancelled
    /\ \E c \in Conns :
         /\ Finished(c)
         /\ Replies(c) = <<FailureReply(4)>>
         /\ counted[c].failed = 1
         /\ "dial" \in phases[c]

\* C21: once the shutdown signal is set it stays set, and a persistent-mode
\* worker that finds it set at the top of its loop starts no other round: it
\* calls neither Next nor Dial, writes the reply with code 01, leaves
\* success_requests and failed_requests as they are and goes on to close
\* its connection, which touches neither counter nor the client.
C21_CancelledWorkerAbandons ==
    [][/\ cancelled => cancelled'
       /\ \A c \in Conns :
            /\ (justDoIt /\ cancelled /\ At(c, "justDoIt") /\ Steps(c)) =>
                   /\ out'[c] = Append(out[c], FailureReply(1))
                   /\ conn'[c].pc = "closing"
                   /\ stats'.SuccessRequests = stats.SuccessRequests
                   /\ stats'.FailedRequests = stats.FailedRequests
                   /\ counted'[c] = counted[c]
                   /\ phases'[c] = phases[c]
                   /\ rotVars' = rotVars
                   /\ failures' = failures
                   /\ requests' = requests
            /\ (At(c, "closing") /\ Steps(c)) =>
                   /\ conn'[c].pc = "closed"
                   /\ out'[c] = out[c]
                   /\ stats'.SuccessRequests = stats.SuccessRequests
                   /\ stats'.FailedRequests = stats.FailedRequests]_vars

C21_Witness ==
    /\ justDoIt
    /\ cancelled
    /\ \E c \in Conns :
         /\ Finished(c)
         /\ Replies(c) = <<FailureReply(1)>>
         /\ "dial" \in phases[c]
         /\ counted[c].failed = 0
         /\ counted[c].success = 0

\* C22 as stated: when Close has returned the shutdown signal is set, the
\* listener is closed and every connection that Serve accepted has had its
\* worker finish, so no worker runs or starts afterwards.
C22_CloseLeavesNoWorker ==
    closePc = "returned" =>
        /\ cancelled
        /\ ~listening
        /\ \A c \in Conns : Accepted(c) => Finished(c)

C22_Witness ==
    /\ closePc = "returned"
    /\ servePc = "accept"
    /\ \E c \in Conns : At(c, "negotiate")

(***************************************************************************)
(* Properties of the loaders, checked under SpecLoader                     *)
(***************************************************************************)
\* the entry parses as an endpoint: a URL with a host and one of the four schemes
ParsesAsEndpoint(line) ==
    /\ ~line.hash /\ ~line.bad /\ line.host # ""
    /\ SchemeToLower(line.scheme) \in {"http", "https", "socks4", "socks5"}

\* the fingerprints of the entries of a list that parse as endpoints, each
\* fingerprint once, in input order
RECURSIVE Endpoints(_)
Endpoints(lines) ==
    IF lines = <<>> THEN <<>>
    ELSE LET front == Endpoints(SubSeq(lines, 1, Len(lines) - 1))
             line == lines[Len(lines)]
             fp == String(NewProxyURL(line, 0).proxy)
         IN  IF ParsesAsEndpoint(line) /\ fp \notin Range(front)
             THEN Append(front, fp)
             ELSE front

\* the fingerprints of the endpoints of the Rotator, in insertion order
Loaded == [i \in 1..Len(rot.proxies) |-> String(rot.proxies[i])]

\* C25 as stated: a load returns an error only when the file cannot be
\* opened or read, and when it returns without one the Rotator holds exactly
\* the entries that parse as endpoints, duplicates left out, in input order.
C25_LoadsExactlyTheEndpoints ==
    loadPc = "returned" =>
        /\ loadErr # ErrNone => input.openErr \/ input.readErrAt # 0
        /\ (~input.openErr /\ input.readErrAt = 0) => Loaded = Endpoints(input.lines)

\* C25 for lists whose lines fit the scanner's buffer, and for every list
\* given to LoadFromStrings
C25_LoadsExactlyTheEndpointsOfShortLines ==
    (loadPc = "returned"
        /\ (input.src = "file" => \A i \in 1..Len(input.lines) : ~input.lines[i].long)) =>
        /\ loadErr # ErrNone => input.openErr \/ input.readErrAt # 0
        /\ (~input.openErr /\ input.readErrAt = 0) => Loaded = Endpoints(input.lines)

C25_Witness ==
    /\ loadPc = "returned"
    /\ input.src = "file"
    /\ ~input.openErr
    /\ input.readErrAt = 0
    /\ loadErr = ErrTooLong
    /\ Len(input.lines) = 3
    /\ pos = 1
    /\ ParsesAsEndpoint(input.lines[3])
    /\ Len(rot.proxies) = 1
    /\ Len(Endpoints(input.lines)) = 3

(***************************************************************************)
(* Properties of the address codec, checked under SpecCodec                *)
(***************************************************************************)
\* the port of the client's request
WirePort == wire[Len(wire) - 1] * 256 + wire[Len(wire)]

\* the host of the target readRequest produced: all but ":<port>"
TargetHost == SubSeq(target.target, 1, Len(target.target) - Len(Itoa(WirePort)) - 1)

\* the address type of a canonical host: 01 for a dotted quad, 04 for an
\* IPv6 literal, 03 for a name
AddrTypeOf(host) ==
    IF Len(ParseIP(host)) = 4 THEN addrIPv4
    ELSE IF Indexes(host, 58) # {} THEN addrIPv6
    ELSE addrDomain

\* readRequest produced a target with a port in 1..65535
CanonicalTarget == target.err = ErrNone /\ WirePort \in 1..65535

\* the round trip of the target through dialSOCKS5 and readRequest
RoundTrip ==
    /\ codecPc # "encode" =>
           /\ encoded.err = ErrNone
           /\ encoded.req[4] = AddrTypeOf(TargetHost)
    /\ codecPc = "done" =>
           /\ reparsed.err = ErrNone
           /\ reparsed.target = target.target

\* C26 as stated: every canonical target readRequest produces (IPv4, IPv6
\* or name, port 1..65535) is encoded by dialSOCKS5 with its address type
\* and read back by readRequest as the same target.
C26_TargetRoundTrip ==
    (codecPc \in {"encode", "reparse", "done"} /\ CanonicalTarget) => RoundTrip

\* C26 for the targets whose host is a dotted quad or a name
C26_TargetRoundTripWithoutIPv6 ==
    (codecPc \in {"encode", "reparse", "done"} /\ CanonicalTarget
        /\ AddrTypeOf(TargetHost) # addrIPv6) => RoundTrip

C26_Witness ==
    /\ codecPc = "done"
    /\ wire[4] = addrIPv6
    /\ CanonicalTarget
    /\ target.target = <<50, 48, 48, 49, 58, 100, 98, 56, 58, 58, 49, 58, 52, 52, 51>>
    /\ encoded.err = "too many colons in address"

(***************************************************************************)
(* Properties of doHTTPConnect, checked under SpecConnect                  *)
(***************************************************************************)
\* the bytes the upstream sent behind its header and the relay has not read
\* yet, with the bytes it has still to send
Pending == brBuf \o sock \o SubSeq(resp.data, up.sent + 1, Len(resp.data))

\* what the relay reads is what the upstream sent behind the header
Preserved == delivered \o Pending = resp.data

\* C27 as stated: after a response with status 200 the relay reads exactly
\* the bytes the upstream sent behind the header, those already in br
\* first; any other status is a dial failure.
C27_TunnelBytesPreserved ==
    /\ httpPc = "relay" => resp.status = 200 /\ Preserved
    /\ (httpPc \in {"relay", "failed"} /\ resp.status # 200) => httpPc = "failed"

\* C27 for the responses http.ReadResponse gives no body
C27_TunnelBytesPreservedWithoutBody ==
    ReadResponseBody(resp) = NoBody =>
        /\ httpPc = "relay" => resp.status = 200 /\ Preserved
        /\ (httpPc \in {"relay", "failed"} /\ resp.status # 200) => httpPc = "failed"

C27_Witness ==
    /\ httpPc = "relay"
    /\ resp.status = 200
    /\ resp.length = -1
    /\ resp.data = <<1, 2, 3>>
    /\ up.sent = 3
    /\ delivered = <<3>>
    /\ Pending = <<>>

(***************************************************************************)
(* The Rotator under concurrent workers, checked under SpecServer          *)
(***************************************************************************)
\* the worker of connection c takes a step that calls Next
CallsNext(c) ==
    /\ Steps(c)
    /\ \/ At(c, "connect")
       \/ At(c, "next")
       \/ At(c, "loop") /\ conn[c].i < conn[c].maxRetries /\ conn[c].p \in conn[c].tried

\* C31: every step that touches the Rotator or an alive flag is one whole
\* call of Next or of MarkDead on the state the call before left, so the
\* calls of the workers take effect in one order; with Sequential strategy,
\* skip_dead=false, requests-per-proxy 1 and N >= 2 endpoints each Next gets
\* the position behind the one the Next before it got, whichever worker made
\* that call, and so a different endpoint.
C31_CallsSerialized ==
    [][/\ <<rot, alive>>' # <<rot, alive>> =>
            \/ /\ alive' = alive
               /\ \E c \in Conns : CallsNext(c)
               /\ \E js \in Draws(shuffleLen(rot, alive)) : rot' = Next(rot, alive, js).r
            \/ /\ rot' = MarkDead(rot)
               /\ \E c \in Conns :
                    At(c, "markDead") /\ Steps(c) /\ alive' = ProxyMarkDead(alive, conn[c].p)
       /\ \A c \in Conns :
            ( /\ CallsNext(c)
              /\ rot.strategy = RotationSequential
              /\ ~rot.skipDead
              /\ rot.requestsPer = 1
              /\ Len(rot.proxies) >= 2 ) =>
                /\ conn'[c].p = rot.proxies[(rot.seqIndex % Len(rot.proxies)) + 1]
                /\ rot'.seqIndex = (rot.seqIndex % Len(rot.proxies)) + 1
                /\ conn'[c].p # rot.current
                /\ rot'.current = conn'[c].p]_vars

C31_Witness ==
    /\ rot.strategy = RotationSequential
    /\ ~rot.skipDead
    /\ rot.requestsPer = 1
    /\ Len(rot.proxies) = 2
    /\ At(1, "loop") /\ At(2, "loop")
    /\ conn[1].i = 0 /\ conn[2].i = 0
    /\ conn[1].tried = {} /\ conn[2].tried = {}
    /\ conn[1].p # conn[2].p
    /\ conn[1].p # Nil /\ conn[2].p # Nil

(***************************************************************************)
(* The counters of the server, checked under SpecServer                    *)
(***************************************************************************)
\* the worker of connection c has been started and has not finished
Running(c) == ~At(c, "idle") /\ ~At(c, "accepted") /\ ~Finished(c)

RECURSIVE SumOf(_, _)
SumOf(f, S) ==
    IF S = {} THEN 0 ELSE LET x == CHOOSE y \in S : TRUE IN f[x] + SumOf(f, S \ {x})

\* C34: a request that succeeds adds one to the requests counter of the
\* endpoint whose dial succeeded and to no other, in the step that adds one
\* to success_requests; no other step of a worker changes a requests
\* counter; so the requests counters of all endpoints sum up to
\* success_requests, in particular whenever no request is in flight.
C34_RequestsCountSuccesses ==
    /\ [](SumOf(requests, Proxies) = stats.SuccessRequests)
    /\ [][\A c \in Conns :
            /\ (At(c, "result") /\ Steps(c) /\ conn[c].err = ErrNone) =>
                   /\ conn[c].usedProxy \in Range(rot.proxies)
                   /\ conn[c].usedProxy = conn[c].dialLog[Len(conn[c].dialLog)]
                   /\ requests' = [requests EXCEPT ![conn[c].usedProxy] = @ + 1]
                   /\ stats'.SuccessRequests = stats.SuccessRequests + 1
            /\ (Steps(c) /\ ~(At(c, "result") /\ conn[c].err = ErrNone)) =>
                   /\ requests' = requests
                   /\ stats'.SuccessRequests = stats.SuccessRequests]_vars

C34_Witness ==
    /\ stats.SuccessRequests = 2
    /\ stats.FailedRequests = 0
    /\ \E p \in Range(rot.proxies) : requests[p] = 2
    /\ \A c \in Conns : Finished(c)
    /\ Len(rot.proxies) = 2

(***************************************************************************)
(* What a failed request has tried, checked under SpecServer               *)
(***************************************************************************)
\* connectToTarget of worker c has returned an error in bounded-retry mode
ReportsFailure(c) ==
    /\ ~justDoIt
    /\ At(c, "result")
    /\ conn[c].err # ErrNone

\* the endpoints worker c has dialed for its request
Dialed(c) == Range(conn[c].dialLog)

\* every endpoint was dialed by c without success, or is dead
AllTriedOrDead(c) ==
    \A p \in Range(rot.proxies) : p \in Dialed(c) \/ ~alive[p]

\* C35 as stated: in bounded-retry mode a request is reported failed only
\* after every endpoint of the Rotator has been dialed for it and failed or
\* has been marked dead by another request, whatever the strategy, the
\* skip_dead setting and the Next calls of other requests.
C35_FailedOnlyAfterAllTried ==
    \A c \in Conns : ReportsFailure(c) => AllTriedOrDead(c)

\* the same with skip_dead set: Next never returns an endpoint the request
\* has dialed, so no round is skipped
C35_FailedOnlyAfterAllTriedSkipDead ==
    \A c \in Conns : (ReportsFailure(c) /\ rot.skipDead) => AllTriedOrDead(c)

\* a request has failed after one dial and two skipped rounds, and an
\* endpoint that is alive was never dialed for it
C35_Witness ==
    \E c \in Conns :
        /\ ReportsFailure(c)
        /\ ~rot.skipDead
        /\ rot.requestsPer = -1
        /\ Len(conn[c].dialLog) = 1
        /\ conn[c].i = conn[c].maxRetries
        /\ \E p \in Range(rot.proxies) : alive[p] /\ p \notin Dialed(c)

(***************************************************************************)
(* Half-close in relay, checked under SpecRelay                            *)
(***************************************************************************)
\* the copy reading from d has ended on EOF
EndedOnEOF(d) == relaying.copy[d] = "eof"

\* C32 as stated: for every upstream kind, when the copy of one direction
\* has ended on EOF the write side of the other connection is half-closed,
\* and relay returns only after both copies have ended.
C32_HalfCloseOnEOF ==
    /\ \A d \in Sides : EndedOnEOF(d) => relaying.shut[Other(d)]
    /\ relaying.pc = "returned" => \A d \in Sides : relaying.copy[d] \in {"eof", "error"}

\* what holds of relay: the client's connection is half-closed when the
\* copy from the upstream has ended, the upstream's when it is the
\* connection of a SOCKS4 or SOCKS5 dial, and relay returns only after both
\* copies have ended.
C32_HalfCloseOnEOFWhereAvailable ==
    /\ \A d \in Sides :
           (EndedOnEOF(d) /\ (Other(d) = "client" \/ relaying.kind \in {"SOCKS4", "SOCKS5"}))
               => relaying.shut[Other(d)]
    /\ relaying.pc = "returned" => \A d \in Sides : relaying.copy[d] \in {"eof", "error"}

\* the client has sent EOF through an HTTP endpoint: the copy to the
\* upstream has ended, the upstream was not half-closed, and relay waits
\* for the upstream to close
C32_Witness ==
    /\ relaying.kind = "HTTP"
    /\ relaying.pc = "relay"
    /\ EndedOnEOF("client")
    /\ ~relaying.shut["target"]
    /\ relaying.copy["target"] = "running"
    /\ ~relaying.peerEOF["target"]

(***************************************************************************)
(* Properties of the SOCKS5 dial, checked under SpecDial                   *)
(***************************************************************************)
\* the endpoint of the dial has been marked dead
MarkedDead == ~dialing.alive[dialing.p]

\* Dial has returned the error of dialSOCKS5's own check of the target: a
\* host:port string it cannot split, a bad port or a host that is too long
TargetRejected ==
    /\ dialing.pc \in {"returned", "marked"}
    /\ socks5Request(dialing.target).err # ErrNone
    /\ dialing.err = socks5Request(dialing.target).err

\* C36 as stated: an endpoint is marked dead only after a fault of its
\* upstream; a request whose target the dialer rejects locally does not
\* cause an endpoint to be marked dead.
C36_MarkedDeadOnlyOnUpstreamFault == MarkedDead => ~TargetRejected

\* what holds: an endpoint is marked dead only after Dial returned an
\* error, and it is then marked dead whatever the error was.
C36_MarkedDeadOnlyOnDialError ==
    /\ MarkedDead => dialing.err # ErrNone
    /\ dialing.pc = "marked" => MarkedDead
    /\ dialing.pc = "connected" => ~MarkedDead /\ dialing.err = ErrNone

\* the upstream accepted the negotiation, the target has port 0, and the
\* endpoint is dead
C36_Witness ==
    /\ dialing.pc = "marked"
    /\ MarkedDead
    /\ dialing.err = "invalid port"
    /\ dialing.selected = 0
    /\ Len(dialing.sent) = 1

\* the methods dialSOCKS5 offered
Offered == { socks5Methods(dialing.p)[k] : k \in 3..Len(socks5Methods(dialing.p)) }

\* the username/password message has been written
AuthSent == \E k \in 1..Len(dialing.sent) : dialing.sent[k].msg = "auth"

\* C37 as stated: the dialer runs the username/password sub-negotiation only
\* when it offered method 0x02, that is for an endpoint with a username;
\* when the upstream selects a method the dialer did not offer, the dial
\* fails and no credentials message is sent.
C37_AuthOnlyWhenOffered ==
    /\ AuthSent => (2 \in Offered /\ dialing.p.Username # <<>>)
    /\ (dialing.selected # -1 /\ dialing.selected \notin Offered) =>
           (~AuthSent /\ dialing.err # ErrNone)

\* what holds: the sub-negotiation runs exactly when the upstream selected
\* 0x02, and the selection of any other method than 0x00 and 0x02 fails the
\* dial without a credentials message.
C37_AuthWhenSelected ==
    /\ AuthSent <=> dialing.selected = 2
    /\ dialing.selected \notin {-1, 0, 2} => (~AuthSent /\ dialing.err = "auth not supported")
    /\ 2 \in Offered <=> dialing.p.Username # <<>>

\* an endpoint without a username, the upstream selected 0x02: the dialer
\* sent empty credentials and the dial succeeded
C37_Witness ==
    /\ dialing.p.Username = <<>>
    /\ dialing.selected = 2
    /\ AuthSent
    /\ dialing.sent[2].bytes = <<1, 0, 0>>
    /\ dialing.pc = "connected"
====
